---- MODULE Spec2Model ----
(***************************************************************************)
(* Model of the incremental indexer (internal/indexer/indexer.go), of the  *)
(* vector-store client it drives (Client.* in internal/analyzer/           *)
(* analyzer.go) and of the duplicate clustering (buildDuplicateGroups).    *)
(*                                                                         *)
(* A source file is identified by its canonical hash-state key: the walker *)
(* is handed the normalized root, so every path it yields is absolute and  *)
(* clean.  SHA-256 is abstracted as an injective tagging of the content.   *)
(***************************************************************************)
EXTENDS Integers, Sequences, FiniteSets, TLC

\* ------------------------------------------------------------ bounds
\* Largest number of changed files of one run of the worker-pool specification.
PoolFiles == 5
\* Longest list of confirmed pairs buildDuplicateGroups is called with.
MaxPairs == 3
\* Largest number of Close calls made on one Server.
MaxCloses == 2
\* Number of file-system events the watched tree produces while the server runs.
MaxEvents == 2
\* Largest number of batches one Client.Upsert call splits its points into.
MaxBatches == 3
\* Workers of one run that reach EnsureCollection at the same time (at most NumWorkers).
RacingWorkers == 3

\* ------------------------------------------------- program constants
NumWorkers == 4
\* Client.Upsert: attempts per batch.
maxRetries == 3
\* watchLoop: the debounce window, in seconds.
debounce == 5
\* The value of timeLeft for a timer that is stopped or has fired and was drained.
Stopped == -1

VARIABLES
    disk,           \* file system: file -> "absent" | "unreadable" | content
    embedDim,       \* dimension of the vectors the configured embedding model returns
    stateFile,      \* the project's <id>_file_hashes.json
    coll,           \* vector size of the project's collection, 0 = no collection
    points,         \* the collection's points: point id (unit text) -> payload file_path, 0 = none
    phase,          \* position of IndexProject: "idle" | "running"
    currentHashes,  \* IndexProject's currentHashes map
    delLeft,        \* deletedFiles still to be handled by the loop of lines 127-134
    queue,          \* contents of fileCh
    pf,             \* position of the processFile call a worker has open for a file
    units,          \* funcs extracted by the processFile call of a file in this run
    run,            \* history: how the most recent run started and ended
    delCalls,       \* history: DeleteByFilter calls of this run per file_path
    procCalls,      \* history: processFile calls of this run per file
    upsCalls,       \* history: Upsert calls of this run per file
    ensCalls,       \* history: EnsureCollection calls of this run
    res,            \* history: what processFile returned for a file in this run
    since,          \* history: what happened to the files since the last run that returned nil
    failedSeen,     \* history: files whose failed processing was persisted as seen
    pairs,          \* buildDuplicateGroups: the list of confirmed pairs it is called with
    dpc,            \* buildDuplicateGroups: position, "off" when it is not running
    di,             \* buildDuplicateGroups: index of the next pair of the loop at dpc
    parent,         \* buildDuplicateGroups: union-find parent map
    rank,           \* buildDuplicateGroups: union-find rank map
    groups,         \* buildDuplicateGroups: root -> DuplicateGroup
    groupScores,    \* buildDuplicateGroups: root -> scores appended so far
    chunkMap,       \* buildDuplicateGroups: CodeHash -> payload
    left,           \* buildDuplicateGroups: keys of chunkMap the range loop has not visited
    store,          \* FindDuplicates: the points a scroll of the collection returns, in order
    plan,           \* FindDuplicates: the QueryPlan (Filter, Threshold) it is called with
    fpc,            \* FindDuplicates: position, "off" when it is not running
    fi,             \* FindDuplicates: index i of the loops over points and vectors
    fj,             \* FindDuplicates: index j of the inner loop over vectors
    chunks,         \* fetchAllVectors: the chunks kept so far
    vectors,        \* fetchAllVectors: the vectors kept so far
    candidates,     \* FindDuplicates: the PairCandidates appended so far
    stateDir,       \* the user state directory: state file path -> file
    lastCall,       \* history: the last call on the state directory and what it returned
    broken,         \* GetAllSourceFiles: directories whose ReadDir fails
    ignorePatterns, \* GetAllSourceFiles: patterns of the root-level .gitignore
    wpc,            \* GetAllSourceFiles / IndexProject: position, "off" when not running
    pending,        \* filepath.WalkDir: paths still to be visited, next first
    found,          \* GetAllSourceFiles: files appended so far
    walkErr,        \* GetAllSourceFiles: TRUE when the walk returned an error
    watcher,        \* Server.watcher: "nil" | "open" | "closed"
    watchDone,      \* Server.watchDone: "nil" | "open" | "closed"
    watchWg,        \* Server.watchWg: its counter
    grpcConn,       \* the qdrant client's connection: "open" | "closed"
    events,         \* watcher.Events: the operations of the events not yet received
    loopPc,         \* watchLoop: "none" | "select" | "exited"
    reindexRequested,\* watchLoop: its local reindexRequested
    timeLeft,       \* watchLoop: seconds until the debounce timer fires, Stopped when it is not running
    running,        \* number of IndexProject runs started by watchLoop that have not returned
    runs,           \* history: number of runs watchLoop has started
    quiet,          \* history: seconds since watchLoop last received a change event, at most debounce
    fsLeft,         \* number of events the file system has still to produce
    cpc,            \* Server.Close: position of the open call, "idle" between calls
    closeCalls,     \* history: number of Close calls that returned
    idA,            \* CollectionName: the project id of the first call
    idB,            \* CollectionName: the project id of the second call
    npc,            \* CollectionName: number of the two calls that returned, "off" when not modelled
    outA,           \* CollectionName: what the first call returned
    outB,           \* CollectionName: what the second call returned
    rop,            \* store client: the call that is open, "upsert" | "delete", "off" when none is modelled
    batches,        \* Client.Upsert: number of batches of the points it is called with
    batch,          \* Client.Upsert: number of the batch of the outer loop
    attempt,        \* Client.Upsert: attempt of the inner loop
    rret,           \* store client: what the call returned, "none" while it runs
    rpcs,           \* history: outcome of every RPC of the call, in order
    tries,          \* history: number of RPCs made for the current batch or the delete
    vecA,           \* CosineSim: its first argument
    vecB,           \* CosineSim: its second argument
    spc,            \* CosineSim: "call" before and "done" after the call, "off" when not modelled
    simScore,       \* CosineSim: what it returned, as a fraction
    cwd,            \* the working directory of the process
    hashes,         \* canonicalizeHashKeys: the map loadFileHashes returned
    kpc,            \* hash-state keys: "load" | "diff" | "done", "off" when not modelled
    prevHashes,     \* IndexProject: prevHashes after canonicalizeHashKeys
    spurious,       \* IndexProject: the changed and the deleted files of the diff
    ecoll,          \* EnsureCollection race: vector size of the collection, 0 = it does not exist
    epts,           \* workers whose points are in the collection
    epc             \* worker -> position in EnsureCollection / Upsert

idxVars == <<disk, embedDim, stateFile, coll, points, phase, currentHashes, delLeft,
             queue, pf, units, run, delCalls, procCalls, upsCalls, ensCalls, res,
             since, failedSeen>>
dupVars == <<pairs, dpc, di, parent, rank, groups, groupScores, chunkMap, left>>
findVars == <<store, plan, fpc, fi, fj, chunks, vectors, candidates>>
dirVars == <<stateDir, lastCall>>
walkVars == <<broken, ignorePatterns, wpc, pending, found, walkErr>>
srvVars == <<watcher, watchDone, watchWg, grpcConn, events, loopPc, reindexRequested, timeLeft,
            running, runs, quiet, fsLeft, cpc, closeCalls>>
nameVars == <<idA, idB, npc, outA, outB>>
retryVars == <<rop, batches, batch, attempt, rret, rpcs, tries>>
simVars == <<vecA, vecB, spc, simScore>>
keyVars == <<cwd, hashes, kpc, prevHashes, spurious>>
ensVars == <<ecoll, epts, epc>>
vars == <<idxVars, dupVars, findVars, dirVars, walkVars, srvVars, nameVars, retryVars, simVars, keyVars, ensVars>>
\* What the actions of one component leave alone.
notIdx == <<dupVars, findVars, dirVars, walkVars, srvVars, nameVars, retryVars, simVars, keyVars, ensVars>>
notDup == <<idxVars, findVars, dirVars, walkVars, srvVars, nameVars, retryVars, simVars, keyVars, ensVars>>
notFind == <<idxVars, dirVars, walkVars, srvVars, nameVars, retryVars, simVars, keyVars, ensVars>>
notDir == <<dupVars, findVars, walkVars, srvVars, nameVars, retryVars, simVars, keyVars, ensVars>>
notWalk == <<idxVars, dupVars, findVars, dirVars, srvVars, nameVars, retryVars, simVars, keyVars, ensVars>>
notSrv == <<idxVars, dupVars, findVars, dirVars, walkVars, nameVars, retryVars, simVars, keyVars, ensVars>>
notName == <<idxVars, dupVars, findVars, dirVars, walkVars, srvVars, retryVars, simVars, keyVars, ensVars>>
notRetry == <<idxVars, dupVars, findVars, dirVars, walkVars, srvVars, nameVars, simVars, keyVars, ensVars>>
notSim == <<idxVars, dupVars, findVars, dirVars, walkVars, srvVars, nameVars, retryVars, keyVars, ensVars>>
notKey == <<idxVars, dupVars, findVars, dirVars, walkVars, srvVars, nameVars, retryVars, simVars, ensVars>>
notEns == <<idxVars, dupVars, findVars, dirVars, walkVars, srvVars, nameVars, retryVars, simVars, keyVars>>

\* ------------------------------------------------------------ data
Contents == {"v1", "v2", "v0", "bad"}
Entries == Contents \cup {"absent", "unreadable"}
Files == {1, 2}
AllFiles == DOMAIN disk

SharedUnit == <<"shared", 0>>
PrivateUnit(f) == <<"own", f>>
UnitIds(F) == {SharedUnit} \cup {PrivateUnit(f) : f \in F}

\* parser.LanguageParser.ExtractFunctions: "v1" holds a function whose text also
\* occurs in other files plus one of its own, "v2" only its own, "v0" none, and
\* "bad" does not parse.
ExtractFunctions(f, c) ==
    CASE c = "v1" -> [err |-> FALSE, funcs |-> {SharedUnit, PrivateUnit(f)}]
      [] c = "v2" -> [err |-> FALSE, funcs |-> {PrivateUnit(f)}]
      [] c = "v0" -> [err |-> FALSE, funcs |-> {}]
      [] OTHER    -> [err |-> TRUE, funcs |-> {}]

\* utils.HashContent: SHA-256 in hex, an injective tagging here.
HashContent(c) == <<"sha256", c>>

\* os.ReadFile on the file system
ReadFile(f) ==
    IF disk[f] \in Contents THEN [err |-> FALSE, data |-> disk[f]]
    ELSE [err |-> TRUE, data |-> "bad"]

\* hashFile, lines 356-362.
hashFile(f) ==
    LET r == ReadFile(f)
    IN IF r.err THEN [err |-> TRUE, hash |-> <<>>]
       ELSE [err |-> FALSE, hash |-> HashContent(r.data)]

\* utils.GetAllSourceFiles: the files with a source extension under the root.
GetAllSourceFiles == {f \in AllFiles : disk[f] # "absent"}

EmptyMap == <<>>
MissingState == [kind |-> "missing", map |-> EmptyMap]
CorruptState == [kind |-> "corrupt", map |-> EmptyMap]
StateOf(m) == [kind |-> "map", map |-> m]

\* Variant: an unparsable state file is read as the empty map, like a missing one.
loadFileHashes_Lenient(sf) ==
    IF sf.kind = "map" THEN [err |-> FALSE, hashes |-> sf.map]
    ELSE [err |-> FALSE, hashes |-> EmptyMap]

\* loadFileHashes, lines 414-435: a missing file is the empty map, an unreadable
\* or unparsable one an error.
loadFileHashes(sf) ==
    CASE sf.kind = "missing" -> [err |-> FALSE, hashes |-> EmptyMap]
      [] sf.kind = "corrupt" -> [err |-> TRUE, hashes |-> EmptyMap]
      [] OTHER -> [err |-> FALSE, hashes |-> sf.map]

RECURSIVE SortedSeq(_)
SortedSeq(S) ==
    IF S = {} THEN <<>>
    ELSE LET m == CHOOSE x \in S : \A y \in S : x <= y
         IN <<m>> \o SortedSeq(S \ {m})

\* ------------------------------------------------------ vector store
PointsOf(pts, f) == {u \in DOMAIN pts : pts[u] = f}

\* Client.DeleteByFilter with a file_path match: one Delete RPC, no retry.
DeleteByFilter(f, netOk) ==
    IF netOk /\ coll # 0
    THEN [err |-> FALSE, points |-> [u \in DOMAIN points |-> IF points[u] = f THEN 0 ELSE points[u]]]
    ELSE [err |-> TRUE, points |-> points]

\* deleteFilePoints, lines 481-503.
deleteFilePoints(f, netOk) == DeleteByFilter(f, netOk)

\* Client.EnsureCollection: Get, then on a size mismatch Delete, then Create.
\* net: "ok" | "fail" (the first RPC that changes something fails) |
\*      "failcreate" (the Create after a successful Delete fails).
EnsureCollection(size, net) ==
    LET cleared == [u \in DOMAIN points |-> 0]
    IN CASE coll = size /\ net = "ok" -> [err |-> FALSE, coll |-> coll, points |-> points]
         [] coll = 0 /\ net = "ok" -> [err |-> FALSE, coll |-> size, points |-> points]
         [] coll \notin {0, size} /\ net = "ok" -> [err |-> FALSE, coll |-> size, points |-> cleared]
         [] coll \notin {0, size} /\ net = "failcreate" -> [err |-> TRUE, coll |-> 0, points |-> cleared]
         [] OTHER -> [err |-> TRUE, coll |-> coll, points |-> points]

\* Client.Upsert of the points built from funcs, all with payload file_path f.
Upsert(f, funcs, size, netOk) ==
    IF netOk /\ coll = size
    THEN [err |-> FALSE, points |-> [u \in DOMAIN points |-> IF u \in funcs THEN f ELSE points[u]]]
    ELSE [err |-> TRUE, points |-> points]

\* ------------------------------------------------------------ history
NoRun == [pre |-> "none", mod |-> 0, stateKind |-> "none", prev |-> EmptyMap,
          changed |-> {}, deleted |-> {}, outcome |-> "none",
          saved |-> "no"]
Zero == [f \in AllFiles |-> 0]
NoRes == [f \in AllFiles |-> "none"]
NoUnits == [f \in AllFiles |-> {}]
Never == [k |-> "never", f |-> 0]
Clean == [k |-> "clean", f |-> 0]
Dirty == [k |-> "dirty", f |-> 0]
Modified(f) == [k |-> "mod", f |-> f]
InFlight == {f \in AllFiles : pf[f] # "-"}

\* Variant: the diff of lines 96-117 classifies every hashed file as changed.
Diff_AllChanged(prev) ==
    LET files == GetAllSourceFiles
        hashed == {f \in files : ~hashFile(f).err}
        cur == [f \in hashed |-> hashFile(f).hash]
    IN [files |-> files, current |-> cur, changed |-> hashed,
        deleted |-> {k \in DOMAIN prev : k \notin hashed}]

\* -------------------------------------------------------- IndexProject
\* Lines 78-124: walk, load and canonicalize the state, hash and diff.
Diff(prev) ==
    LET files == GetAllSourceFiles
        hashed == {f \in files : ~hashFile(f).err}
        cur == [f \in hashed |-> hashFile(f).hash]
    IN [files |-> files,
        current |-> cur,
        changed |-> {f \in hashed : f \notin DOMAIN prev \/ prev[f] # cur[f]},
        deleted |-> {k \in DOMAIN prev : k \notin hashed}]

\* Variant: the no-op fast path of lines 121-124 is never taken.
IsNoop_Never(d) == FALSE

\* Lines 121-124: the fast path.
IsNoop(d) == d.changed = {} /\ d.deleted = {}

\* Variant: only as many paths as there are workers are sent on the channel.
FillChannel_OnePerWorker(changed) ==
    LET all == SortedSeq(changed)
    IN SubSeq(all, 1, IF Len(all) < NumWorkers THEN Len(all) ELSE NumWorkers)

\* Lines 139-152: fileCh is made as large as changedFiles and filled with all of
\* it, in the walk's (lexical) order, before it is closed.
FillChannel(changed) == SortedSeq(changed)

StartRun ==
    /\ phase = "idle"
    /\ LET ld == loadFileHashes(stateFile)
           d == Diff(ld.hashes)
           early == IF d.files = {} THEN "empty"
                    ELSE IF ld.err THEN "loaderr"
                    ELSE IF IsNoop(d) THEN "noop"
                    ELSE "running"
       IN /\ run' = [pre |-> since.k, mod |-> since.f,
                     stateKind |-> stateFile.kind, prev |-> stateFile.map,
                     changed |-> IF early \in {"noop", "running"} THEN d.changed ELSE {},
                     deleted |-> IF early \in {"noop", "running"} THEN d.deleted ELSE {},
                     outcome |-> early, saved |-> "no"]
          /\ phase' = IF early = "running" THEN "running" ELSE "idle"
          /\ currentHashes' = IF early = "running" THEN d.current ELSE EmptyMap
          /\ delLeft' = IF early = "running" THEN d.deleted ELSE {}
          /\ queue' = IF early = "running" THEN FillChannel(d.changed) ELSE <<>>
          /\ since' = IF early \in {"empty", "noop"} THEN Clean
                      ELSE IF early = "loaderr" THEN Never ELSE since
    /\ delCalls' = Zero /\ procCalls' = Zero /\ upsCalls' = Zero /\ ensCalls' = 0
    /\ res' = NoRes /\ units' = NoUnits
    /\ UNCHANGED <<disk, embedDim, stateFile, coll, points, pf, failedSeen>>
    /\ UNCHANGED notIdx

\* Lines 127-134: one iteration of the loop over deletedFiles (a map-ordered list).
DeleteRemoved(f) ==
    /\ phase = "running" /\ f \in delLeft
    /\ \E netOk \in BOOLEAN :
         LET d == deleteFilePoints(f, netOk)
         IN points' = d.points
    /\ delLeft' = delLeft \ {f}
    /\ delCalls' = [delCalls EXCEPT ![f] = @ + 1]
    /\ UNCHANGED <<disk, embedDim, stateFile, coll, phase, currentHashes, queue, pf, units,
                   run, procCalls, upsCalls, ensCalls, res, since, failedSeen>>
    /\ UNCHANGED notIdx

\* processWorker receives the next path and processFile starts: lines 164-183.
ProcessFileStart(f) ==
    /\ phase = "running" /\ delLeft = {}
    /\ queue # <<>> /\ f = Head(queue)
    /\ Cardinality(InFlight) < NumWorkers
    /\ queue' = Tail(queue)
    /\ \E netOk \in BOOLEAN :
         points' = deleteFilePoints(f, netOk).points
    /\ pf' = [pf EXCEPT ![f] = "extract"]
    /\ procCalls' = [procCalls EXCEPT ![f] = @ + 1]
    /\ delCalls' = [delCalls EXCEPT ![f] = @ + 1]
    /\ UNCHANGED <<disk, embedDim, stateFile, coll, phase, currentHashes, delLeft, units,
                   run, upsCalls, ensCalls, res, since, failedSeen>>
    /\ UNCHANGED notIdx

\* Variant: a processFile error drops the paths still in the channel.
RemainingWork_AbortOnError(q, r) == IF r = "err" THEN <<>> ELSE q

\* processWorker, lines 164-170: what is left in fileCh for the workers after a
\* processFile call returned r; an error is logged and the loop goes on.
RemainingWork(q, r) == q

Return(f, r) ==
    /\ pf' = [pf EXCEPT ![f] = "-"]
    /\ res' = [res EXCEPT ![f] = r]
    /\ units' = [units EXCEPT ![f] = {}]
    /\ queue' = RemainingWork(queue, r)

Continue(f, at) ==
    /\ pf' = [pf EXCEPT ![f] = at]
    /\ UNCHANGED <<res, queue>>

\* processFile lines 185-264: read, parse, build the texts, EmbedBatch.
\* emb: "err" | "zero" (no vectors, or a vector of dimension 0) | "ok".
ProcessFileEmbed(f) ==
    /\ pf[f] = "extract"
    /\ LET rd == ReadFile(f)
           ex == ExtractFunctions(f, rd.data)
       IN \E emb \in {"err", "zero", "ok"} :
            IF rd.err \/ ex.err THEN Return(f, "err")
            ELSE IF ex.funcs = {} THEN Return(f, "ok")
            ELSE IF emb # "ok" THEN Return(f, "err")
            ELSE Continue(f, "ensure") /\ units' = [units EXCEPT ![f] = ex.funcs]
    /\ UNCHANGED <<disk, embedDim, stateFile, coll, points, phase, currentHashes, delLeft,
                   run, delCalls, procCalls, upsCalls, ensCalls, since, failedSeen>>
    /\ UNCHANGED notIdx

\* processFile lines 266-271.
ProcessFileEnsure(f) ==
    /\ pf[f] = "ensure"
    /\ \E net \in {"ok", "fail", "failcreate"} :
         LET e == EnsureCollection(embedDim, net)
         IN /\ coll' = e.coll
            /\ points' = e.points
            /\ IF e.err THEN Return(f, "err")
               ELSE Continue(f, "upsert") /\ units' = units
    /\ ensCalls' = ensCalls + 1
    /\ UNCHANGED <<disk, embedDim, stateFile, phase, currentHashes, delLeft,
                   run, delCalls, procCalls, upsCalls, since, failedSeen>>
    /\ UNCHANGED notIdx

\* processFile lines 273-342.
ProcessFileUpsert(f) ==
    /\ pf[f] = "upsert"
    /\ \E netOk \in BOOLEAN :
         LET u == Upsert(f, units[f], embedDim, netOk)
         IN /\ points' = u.points
            /\ Return(f, IF u.err THEN "err" ELSE "ok")
    /\ upsCalls' = [upsCalls EXCEPT ![f] = @ + 1]
    /\ UNCHANGED <<disk, embedDim, stateFile, coll, phase, currentHashes, delLeft,
                   run, delCalls, procCalls, ensCalls, since, failedSeen>>
    /\ UNCHANGED notIdx

\* Variant: only the files whose processFile returned nil are saved.
HashesToSave_OnlyProcessed(cur, r) ==
    [f \in {g \in DOMAIN cur : r[g] # "err"} |-> cur[f]]

\* Line 156: the map handed to saveFileHashes, whatever processFile returned.
HashesToSave(cur, r) == cur

\* Lines 156-161: only a failed save makes the run return an error.
RunResult(saveOk, r) == IF saveOk THEN "ok" ELSE "saveerr"

\* Variant: IndexProject goes on as soon as the channel is drained.
WaitReturned_NoJoin(q, open) == q = <<>>

\* Lines 139-153: wg.Wait() returns when each worker has called wg.Done(), which
\* it does when fileCh is closed and drained and its last processFile returned.
WaitReturned(q, open) == q = <<>> /\ open = {}

\* Lines 153-161: wg.Wait() has returned; saveFileHashes.  A failed write leaves
\* the old file or a truncated one.
SaveHashes ==
    /\ phase = "running" /\ delLeft = {} /\ WaitReturned(queue, InFlight)
    /\ \E o \in {"ok", "err", "errtrunc"} :
         /\ stateFile' = CASE o = "ok" -> StateOf(HashesToSave(currentHashes, res))
                           [] o = "err" -> stateFile
                           [] OTHER -> CorruptState
         /\ run' = [run EXCEPT !.outcome = RunResult(o = "ok", res),
                               !.saved = IF o = "ok" THEN "ok" ELSE "failed"]
         /\ since' = IF o = "ok" THEN Clean ELSE Never
         /\ failedSeen' = IF o = "ok" THEN failedSeen \cup {f \in AllFiles : res[f] = "err"}
                          ELSE {}
    /\ phase' = "idle"
    /\ currentHashes' = EmptyMap
    /\ UNCHANGED <<disk, embedDim, coll, points, delLeft, queue, pf, units,
                   delCalls, procCalls, upsCalls, ensCalls, res>>
    /\ UNCHANGED notIdx

\* --------------------------------------------------------- environment
ForgetRun ==
    /\ run' = NoRun /\ delCalls' = Zero /\ procCalls' = Zero /\ upsCalls' = Zero
    /\ ensCalls' = 0 /\ res' = NoRes /\ units' = NoUnits

\* A file is created, edited, made unreadable or removed between two runs.
Edit(f, e) ==
    /\ phase = "idle"
    /\ e \in Entries /\ e # disk[f]
    /\ disk' = [disk EXCEPT ![f] = e]
    /\ since' = IF since = Never THEN Never
                ELSE IF since = Clean /\ disk[f] \in Contents /\ e \in Contents THEN Modified(f)
                ELSE Dirty
    /\ failedSeen' = failedSeen \ {f}
    /\ ForgetRun
    /\ UNCHANGED <<embedDim, stateFile, coll, points, phase, currentHashes, delLeft, queue, pf>>
    /\ UNCHANGED notIdx

\* ClearProjectState, lines 463-477.
ClearProjectState ==
    /\ phase = "idle"
    /\ stateFile # MissingState
    /\ stateFile' = MissingState
    /\ since' = Never
    /\ failedSeen' = {}
    /\ ForgetRun
    /\ UNCHANGED <<disk, embedDim, coll, points, phase, currentHashes, delLeft, queue, pf>>
    /\ UNCHANGED notIdx

\* buildDuplicateGroups is not running.
DupOff ==
    /\ pairs = <<>> /\ dpc = "off" /\ di = 0
    /\ parent = EmptyMap /\ rank = EmptyMap
    /\ groups = EmptyMap /\ groupScores = EmptyMap /\ chunkMap = EmptyMap
    /\ left = {}

\* No source file yet, no state file, no collection; IndexProject is not running.
IndexerOff ==
    /\ disk = [f \in Files |-> "absent"]
    /\ embedDim = 1
    /\ stateFile = MissingState
    /\ coll = 0
    /\ points = [u \in UnitIds(Files) |-> 0]
    /\ phase = "idle"
    /\ currentHashes = EmptyMap
    /\ delLeft = {}
    /\ queue = <<>>
    /\ pf = [f \in Files |-> "-"]
    /\ units = NoUnits
    /\ run = NoRun
    /\ delCalls = Zero /\ procCalls = Zero /\ upsCalls = Zero
    /\ ensCalls = 0
    /\ res = NoRes
    /\ since = Never
    /\ failedSeen = {}

\* FindDuplicates is not running.
FindOff ==
    /\ store = <<>> /\ plan = [Filter |-> "none", Threshold |-> "none"]
    /\ fpc = "off" /\ fi = 0 /\ fj = 0
    /\ chunks = <<>> /\ vectors = <<>> /\ candidates = <<>>

\* The components outside the indexer and buildDuplicateGroups are at rest.
\* No call on the state directory of several projects is modelled.
DirOff == stateDir = EmptyMap /\ lastCall = [op |-> "off"]

\* No walk of a directory tree is modelled.
WalkOff == broken = {} /\ ignorePatterns = {} /\ wpc = "off" /\ pending = <<>> /\ found = <<>> /\ walkErr = FALSE

\* No MCP server is modelled.
SrvOff == 
    /\ watcher = "nil" /\ watchDone = "nil" /\ watchWg = 0 /\ grpcConn = "closed"
    /\ events = <<>> /\ loopPc = "none" /\ reindexRequested = FALSE /\ timeLeft = Stopped
    /\ running = 0 /\ runs = 0 /\ quiet = 0 /\ fsLeft = 0
    /\ cpc = "off" /\ closeCalls = 0

\* No CollectionName call is modelled.
NameOff == idA = <<>> /\ idB = <<>> /\ npc = "off" /\ outA = <<>> /\ outB = <<>>

\* No call of the store client's retry loop is modelled.
RetryOff == rop = "off" /\ batches = 0 /\ batch = 0 /\ attempt = 0 /\ rret = "none" /\ rpcs = <<>> /\ tries = 0

\* No single CosineSim call is modelled.
SimOff == vecA = <<>> /\ vecB = <<>> /\ spc = "off" /\ simScore = [num |-> 0, den |-> 1]

\* No canonicalization of hash-state keys is modelled.
KeyOff == cwd = <<>> /\ hashes = EmptyMap /\ kpc = "off" /\ prevHashes = EmptyMap /\ spurious = <<{}, {}>>

\* No concurrent EnsureCollection calls are modelled.
EnsOff == ecoll = 0 /\ epts = {} /\ epc = <<>>

RestOff == FindOff /\ DirOff /\ WalkOff /\ SrvOff /\ NameOff /\ RetryOff /\ SimOff /\ KeyOff /\ EnsOff

Init == IndexerOff /\ DupOff /\ RestOff

Next ==
    \/ StartRun
    \/ \E f \in AllFiles : DeleteRemoved(f)
    \/ \E f \in AllFiles : ProcessFileStart(f)
    \/ \E f \in AllFiles : ProcessFileEmbed(f)
    \/ \E f \in AllFiles : ProcessFileEnsure(f)
    \/ \E f \in AllFiles : ProcessFileUpsert(f)
    \/ SaveHashes
    \/ \E f \in AllFiles, e \in Entries : Edit(f, e)
    \/ ClearProjectState

Spec == Init /\ [][Next]_vars

\* One project of 1..PoolFiles source files that was never indexed: every file is
\* changed in the first run, and nothing edits the files.
InitPool ==
    /\ disk \in {[f \in 1..n |-> "v2"] : n \in 1..PoolFiles}
    /\ embedDim = 1
    /\ stateFile = MissingState
    /\ coll = 0
    /\ points = [u \in UnitIds(DOMAIN disk) |-> 0]
    /\ phase = "idle"
    /\ currentHashes = EmptyMap
    /\ delLeft = {}
    /\ queue = <<>>
    /\ pf = [f \in DOMAIN disk |-> "-"]
    /\ units = NoUnits
    /\ run = NoRun
    /\ delCalls = Zero /\ procCalls = Zero /\ upsCalls = Zero
    /\ ensCalls = 0
    /\ res = NoRes
    /\ since = Never
    /\ failedSeen = {}
    /\ DupOff /\ RestOff

\* The index command (cmd/root.go): one IndexProject call in the life of the process.
indexCmd == run.outcome = "none" /\ StartRun

NextPool ==
    \/ indexCmd
    \/ \E f \in AllFiles : ProcessFileStart(f)
    \/ \E f \in AllFiles : ProcessFileEmbed(f)
    \/ \E f \in AllFiles : ProcessFileEnsure(f)
    \/ \E f \in AllFiles : ProcessFileUpsert(f)
    \/ SaveHashes

SpecPool == InitPool /\ [][NextPool]_vars

\* One project of two source files that was never indexed, each file with or
\* without a function whose text also occurs in the other; one index run.
InitOrder ==
    /\ disk \in [Files -> {"v1", "v2"}]
    /\ embedDim = 1
    /\ stateFile = MissingState
    /\ coll = 0
    /\ points = [u \in UnitIds(Files) |-> 0]
    /\ phase = "idle"
    /\ currentHashes = EmptyMap
    /\ delLeft = {}
    /\ queue = <<>>
    /\ pf = [f \in Files |-> "-"]
    /\ units = NoUnits
    /\ run = NoRun
    /\ delCalls = Zero /\ procCalls = Zero /\ upsCalls = Zero
    /\ ensCalls = 0
    /\ res = NoRes
    /\ since = Never
    /\ failedSeen = {}
    /\ DupOff /\ RestOff

NextOrder ==
    \/ indexCmd
    \/ \E f \in AllFiles : ProcessFileStart(f)
    \/ \E f \in AllFiles : ProcessFileEmbed(f)
    \/ \E f \in AllFiles : ProcessFileEnsure(f)
    \/ \E f \in AllFiles : ProcessFileUpsert(f)
    \/ SaveHashes

SpecOrder == InitOrder /\ [][NextOrder]_vars

\* ------------------------------------------------ duplicate clustering
\* Content fingerprints of the stored chunks.  The point id is derived from the
\* fingerprint (indexer.go lines 275-276), so a scroll returns one chunk per
\* fingerprint and a chunk is identified by its CodeHash.
Hashes == {1, 2, 3, 4}
Chunk(h) == [CodeHash |-> h, NodeName |-> <<"fn", h>>]

\* utils.CosineSim of the two chunks' vectors, in hundredths: a fixed symmetric table.
Score(a, b) ==
    CASE {a, b} = {1, 2} -> 95
      [] {a, b} = {2, 3} -> 93
      [] {a, b} = {1, 3} -> 91
      [] {a, b} = {3, 4} -> 97
      [] OTHER -> 90 + a + b

PairCandidate(a, b) == [A |-> Chunk(a), B |-> Chunk(b), Score |-> Score(a, b)]
Edge(p) == {p.A.CodeHash, p.B.CodeHash}

\* FindDuplicates, lines 31-43: every pair of chunks is compared once, A being the
\* chunk that comes first in the scroll (here: the smaller fingerprint), so no two
\* candidates join the same two chunks.  The lists are taken in every order.
CandidateLists ==
    LET all == {PairCandidate(a, b) : a, b \in Hashes}
        ok(l) == /\ \A i \in DOMAIN l : l[i].A.CodeHash < l[i].B.CodeHash
                 /\ \A i, j \in DOMAIN l : i # j => Edge(l[i]) # Edge(l[j])
    IN UNION {{l \in [1..n -> all] : ok(l)} : n \in 0..MaxPairs}

\* Lines 147-153: find with path compression.
RECURSIVE find(_, _)
find(par, x) ==
    IF par[x] # x
    THEN LET r == find(par, par[x])
         IN [parent |-> [r.parent EXCEPT ![x] = r.root], root |-> r.root]
    ELSE [parent |-> par, root |-> x]

\* Variant: union links the second key under the first without looking up roots.
union_NoFind(par, rk, x, y) == [parent |-> [par EXCEPT ![y] = x], rank |-> rk]

\* Lines 155-168: union by rank.
union(par, rk, x, y) ==
    LET fx == find(par, x)
        fy == find(fx.parent, y)
        px == fx.root
        py == fy.root
        p2 == fy.parent
    IN IF px = py THEN [parent |-> p2, rank |-> rk]
       ELSE IF rk[px] < rk[py] THEN [parent |-> [p2 EXCEPT ![px] = py], rank |-> rk]
       ELSE IF rk[px] > rk[py] THEN [parent |-> [p2 EXCEPT ![py] = px], rank |-> rk]
       ELSE [parent |-> [p2 EXCEPT ![py] = px], rank |-> [rk EXCEPT ![px] = @ + 1]]

\* A Go map assignment m[k] = v.
Put(m, k, v) == [x \in DOMAIN m \cup {k} |-> IF x = k THEN v ELSE m[x]]
\* Lines 171-178: a key is entered on first sight only.
PutIfAbsent(m, k, v) == IF k \in DOMAIN m THEN m ELSE Put(m, k, v)

RECURSIVE Sum(_)
Sum(sc) == IF sc = <<>> THEN 0 ELSE Head(sc) + Sum(Tail(sc))
NoScore == [num |-> 0, den |-> 1]

\* Variant: the score of a group is the score of its first pair.
Mean_FirstOnly(sc) == [num |-> sc[1], den |-> 1]

\* Lines 213-217: sum / float64(len(scores)), kept as the exact quotient.
Mean(sc) == [num |-> Sum(sc), den |-> Len(sc)]

\* Lines 139-145: the call; an empty list returns nil.
BuildEnter ==
    /\ dpc = "start"
    /\ IF Len(pairs) = 0 THEN dpc' = "done" /\ di' = 0
       ELSE dpc' = "union" /\ di' = 1
    /\ UNCHANGED <<pairs, parent, rank, groups, groupScores, chunkMap, left>>
    /\ UNCHANGED notDup

\* Lines 170-182: one iteration of the first loop over pairs.
BuildUnion ==
    /\ dpc = "union"
    /\ LET keyA == pairs[di].A.CodeHash
           keyB == pairs[di].B.CodeHash
           par == PutIfAbsent(PutIfAbsent(parent, keyA, keyA), keyB, keyB)
           rk == PutIfAbsent(PutIfAbsent(rank, keyA, 0), keyB, 0)
           u == union(par, rk, keyA, keyB)
       IN parent' = u.parent /\ rank' = u.rank
    /\ IF di < Len(pairs) THEN di' = di + 1 /\ dpc' = dpc
       ELSE di' = 1 /\ dpc' = "group"
    /\ UNCHANGED <<pairs, groups, groupScores, chunkMap, left>>
    /\ UNCHANGED notDup

\* Lines 188-201: one iteration of the second loop over pairs.
BuildGroup ==
    /\ dpc = "group"
    /\ LET pair == pairs[di]
           cm == Put(Put(chunkMap, pair.A.CodeHash, pair.A), pair.B.CodeHash, pair.B)
           fr == find(parent, pair.A.CodeHash)
           root == fr.root
       IN /\ chunkMap' = cm
          /\ parent' = fr.parent
          /\ groups' = PutIfAbsent(groups, root, [Chunks |-> <<>>, AvgScore |-> NoScore])
          /\ groupScores' = Put(groupScores, root,
                                (IF root \in DOMAIN groupScores THEN groupScores[root] ELSE <<>>)
                                    \o <<pair.Score>>)
          /\ IF di < Len(pairs) THEN di' = di + 1 /\ dpc' = dpc /\ left' = left
             ELSE di' = 0 /\ dpc' = "collect" /\ left' = DOMAIN cm
    /\ UNCHANGED <<pairs, rank>>
    /\ UNCHANGED notDup

\* Lines 203-208: one iteration of the range over chunkMap, in map order.
BuildCollect(hash) ==
    /\ dpc = "collect" /\ hash \in left
    /\ LET fr == find(parent, hash)
       IN /\ parent' = fr.parent
          /\ groups' = IF fr.root \in DOMAIN groups
                       THEN [groups EXCEPT ![fr.root].Chunks = Append(@, chunkMap[hash])]
                       ELSE groups
    /\ left' = left \ {hash}
    /\ UNCHANGED <<pairs, dpc, di, rank, groupScores, chunkMap>>
    /\ UNCHANGED notDup

\* Lines 210-226: the average per group, and the groups are returned in map order.
BuildAverage ==
    /\ dpc = "collect" /\ left = {}
    /\ groups' = [root \in DOMAIN groups |->
                    IF root \in DOMAIN groupScores /\ Len(groupScores[root]) > 0
                    THEN [groups[root] EXCEPT !.AvgScore = Mean(groupScores[root])]
                    ELSE groups[root]]
    /\ dpc' = "done"
    /\ UNCHANGED <<pairs, di, parent, rank, groupScores, chunkMap, left>>
    /\ UNCHANGED notDup

InitDup ==
    /\ IndexerOff /\ RestOff
    /\ pairs \in CandidateLists
    /\ dpc = "start" /\ di = 0
    /\ parent = EmptyMap /\ rank = EmptyMap
    /\ groups = EmptyMap /\ groupScores = EmptyMap /\ chunkMap = EmptyMap
    /\ left = {}

NextDup ==
    \/ BuildEnter
    \/ BuildUnion
    \/ BuildGroup
    \/ \E hash \in Hashes : BuildCollect(hash)
    \/ BuildAverage

SpecDup == InitDup /\ [][NextDup]_vars

\* Two payloads with one content fingerprint: the same text stored for two
\* locations, or two payloads without a code_hash (both decode to "").
ChunkAt(h, loc) == [CodeHash |-> h, NodeName |-> <<"fn", h, loc>>]
TwinPair(h) == [A |-> ChunkAt(h, "first"), B |-> ChunkAt(h, "second"), Score |-> 99]

\* Lists of confirmed pairs in which at least one pair joins two such payloads;
\* FindDuplicates confirms it like any other pair (isTrivialPair looks at the
\* file path and the lines only).
TwinLists ==
    LET all == {PairCandidate(p[1], p[2]) : p \in {q \in Hashes \X Hashes : q[1] < q[2]}}
                   \cup {TwinPair(h) : h \in {1, 2}}
        ok(l) == /\ \A i, j \in DOMAIN l : i # j => Edge(l[i]) # Edge(l[j])
                 /\ \E i \in DOMAIN l : l[i].A.CodeHash = l[i].B.CodeHash
    IN UNION {{l \in [1..n -> all] : ok(l)} : n \in 1..MaxPairs}

InitTwin ==
    /\ IndexerOff /\ RestOff
    /\ pairs \in TwinLists
    /\ dpc = "start" /\ di = 0
    /\ parent = EmptyMap /\ rank = EmptyMap
    /\ groups = EmptyMap /\ groupScores = EmptyMap /\ chunkMap = EmptyMap
    /\ left = {}

SpecTwin == InitTwin /\ [][NextDup]_vars

\* ------------------------------------------------------ FindDuplicates
\* The payloads of the points in the collection (models.CodeChunkPayload).
Payload(h, file, from, to, lang, type) ==
    [CodeHash |-> h, FilePath |-> file, StartLine |-> from, EndLine |-> to,
     Language |-> lang, NodeType |-> type]
StoredPayloads ==
    << Payload(1, "a.go", 10, 15, "go", "function"),
       Payload(2, "a.go", 10, 20, "go", "method"),
       Payload(3, "b.py", 1, 4, "python", "function"),
       Payload(4, "c.go", 30, 40, "go", "function"),
       Payload(5, "b.py", 50, 51, "python", "function") >>
\* The vectors the embedding model may have returned for a point.
StoredVectors == {<<1, 0>>, <<0, 1>>}
Stores ==
    {[i \in DOMAIN StoredPayloads |-> [Payload |-> StoredPayloads[i], Vector |-> v[i]]] :
        v \in [DOMAIN StoredPayloads -> StoredVectors]}

\* point.Vectors.GetVector() of a point that carries no unnamed vector: nil.
NoVector == <<>>

\* Collections, written by any client of the store, in which at least one point
\* has no unnamed vector.
StoresWithGaps ==
    {[i \in DOMAIN StoredPayloads |-> [Payload |-> StoredPayloads[i], Vector |-> v[i]]] :
        v \in {w \in [DOMAIN StoredPayloads -> StoredVectors \cup {NoVector}] :
                  \E i \in DOMAIN StoredPayloads : w[i] = NoVector}}

\* models.QueryFilter and models.QueryPlan; the threshold is a fraction.
QueryFilters ==
    [Languages : {{}, {"go"}}, NodeTypes : {{}, {"function"}},
     MinLines : {0, 5}, MaxLines : {0, 8}]
QueryPlans == [Filter : QueryFilters, Threshold : {[num |-> 9, den |-> 10]}]

LineCount(c) == c.EndLine - c.StartLine + 1

\* Variant: the line bounds of the filter are not looked at.
matchesFilter_NoLineBounds(chunk, filter) ==
    filter.Languages # {} => chunk.Language \in filter.Languages

\* matchesFilter, lines 98-121: the language list and the two line bounds.
matchesFilter(chunk, filter) ==
    /\ filter.Languages # {} => chunk.Language \in filter.Languages
    /\ ~(filter.MinLines > 0 /\ LineCount(chunk) < filter.MinLines)
    /\ ~(filter.MaxLines > 0 /\ LineCount(chunk) > filter.MaxLines)

\* Variant: only the line counts make a pair trivial.
isTrivialPair_ShortOnly(a, b) == LineCount(a) < 3 \/ LineCount(b) < 3

\* isTrivialPair, lines 123-137.
isTrivialPair(a, b) ==
    \/ a.FilePath = b.FilePath /\ (a.StartLine = b.StartLine \/ a.EndLine = b.EndLine)
    \/ LineCount(a) < 3
    \/ LineCount(b) < 3

RECURSIVE Dot(_, _)
Dot(a, b) == IF a = <<>> THEN 0 ELSE Head(a) * Head(b) + Dot(Tail(a), Tail(b))

\* utils.CosineSim, lines 62-76: dotProduct / (normA * normB), kept as a fraction.
CosineSim(a, b) ==
    IF Len(a) # Len(b) THEN [num |-> 0, den |-> 1]
    ELSE IF Dot(a, a) = 0 \/ Dot(b, b) = 0 THEN [num |-> 0, den |-> 1]
    ELSE [num |-> Dot(a, b), den |-> Dot(a, a) * Dot(b, b)]

\* score >= plan.Threshold on fractions with positive denominators.
AtLeast(x, y) == x.num * y.den >= y.num * x.den

\* A score as buildDuplicateGroups sums it here: in hundredths.
Hundredths(x) == (100 * x.num) \div x.den

\* FindDuplicates is called; fetchAllVectors issues its Scroll (lines 26, 51-66).
FindEnter ==
    /\ fpc = "start"
    /\ \E scrollOk \in BOOLEAN :
         IF scrollOk THEN fpc' = "fetch" /\ fi' = 1
         ELSE fpc' = "error" /\ fi' = 0
    /\ UNCHANGED <<store, plan, fj, chunks, vectors, candidates>>
    /\ UNCHANGED <<dupVars, notFind>>

\* fetchAllVectors, lines 68-81: one point of the page.
FetchPoint ==
    /\ fpc = "fetch" /\ fi <= Len(store)
    /\ LET point == store[fi]
       IN IF matchesFilter(point.Payload, plan.Filter)
          THEN /\ chunks' = Append(chunks, point.Payload)
               /\ vectors' = IF point.Vector # NoVector THEN Append(vectors, point.Vector)
                             ELSE vectors
          ELSE UNCHANGED <<chunks, vectors>>
    /\ fi' = fi + 1
    /\ UNCHANGED <<store, plan, fpc, fj, candidates>>
    /\ UNCHANGED <<dupVars, notFind>>

\* fetchAllVectors returns (lines 83-89) and the loops of lines 31-43 start.
FetchReturn ==
    /\ fpc = "fetch" /\ fi > Len(store)
    /\ fpc' = "pairs" /\ fi' = 1 /\ fj' = 2
    /\ UNCHANGED <<store, plan, chunks, vectors, candidates>>
    /\ UNCHANGED <<dupVars, notFind>>

\* Lines 32-43: one iteration of the inner loop.
ComparePair ==
    /\ fpc = "pairs" /\ fi <= Len(vectors) /\ fj <= Len(vectors)
    /\ LET score == CosineSim(vectors[fi], vectors[fj])
       IN candidates' =
            IF AtLeast(score, plan.Threshold) /\ ~isTrivialPair(chunks[fi], chunks[fj])
            THEN Append(candidates, [A |-> chunks[fi], B |-> chunks[fj], Score |-> Hundredths(score)])
            ELSE candidates
    /\ IF fj < Len(vectors) THEN fi' = fi /\ fj' = fj + 1
       ELSE fi' = fi + 1 /\ fj' = fi + 2
    /\ UNCHANGED <<store, plan, fpc, chunks, vectors>>
    /\ UNCHANGED <<dupVars, notFind>>

\* Lines 45-46: filterDuplicatePairs returns its argument and
\* buildDuplicateGroups is called with it.
ConfirmPairs ==
    /\ fpc = "pairs" /\ (fi > Len(vectors) \/ fj > Len(vectors))
    /\ fpc' = "build"
    /\ pairs' = candidates /\ dpc' = "start"
    /\ UNCHANGED <<store, plan, fi, fj, chunks, vectors, candidates>>
    /\ UNCHANGED <<di, parent, rank, groups, groupScores, chunkMap, left>>
    /\ UNCHANGED notFind

\* Line 48: the groups are returned.
FindReturn ==
    /\ fpc = "build" /\ dpc = "done"
    /\ fpc' = "done"
    /\ UNCHANGED <<store, plan, fi, fj, chunks, vectors, candidates>>
    /\ UNCHANGED <<dupVars, notFind>>

InitFind ==
    /\ IndexerOff /\ DupOff /\ DirOff /\ WalkOff /\ SrvOff /\ NameOff /\ RetryOff /\ SimOff /\ KeyOff /\ EnsOff
    /\ store \in Stores
    /\ plan \in QueryPlans
    /\ fpc = "start" /\ fi = 0 /\ fj = 0
    /\ chunks = <<>> /\ vectors = <<>> /\ candidates = <<>>

NextFind ==
    \/ FindEnter
    \/ FetchPoint
    \/ FetchReturn
    \/ ComparePair
    \/ ConfirmPairs
    \/ BuildEnter
    \/ BuildUnion
    \/ BuildGroup
    \/ \E hash \in Hashes : BuildCollect(hash)
    \/ BuildAverage
    \/ FindReturn

SpecFind == InitFind /\ [][NextFind]_vars

\* FindDuplicates on a collection in which some point has no vector.
InitFetch ==
    /\ IndexerOff /\ DupOff /\ DirOff /\ WalkOff /\ SrvOff /\ NameOff /\ RetryOff /\ SimOff /\ KeyOff /\ EnsOff
    /\ store \in StoresWithGaps
    /\ plan \in QueryPlans
    /\ fpc = "start" /\ fi = 0 /\ fj = 0
    /\ chunks = <<>> /\ vectors = <<>> /\ candidates = <<>>

SpecFetch == InitFetch /\ [][NextFind]_vars

\* ------------------------------------------- per-project state files
\* Project ids as IndexProject and the commands pass them around.
ProjectIDs == {"", "default", "p1", "p2"}

\* Variant: every project uses the state file of the default project.
fileHashStatePath_Shared(projectID) == <<"default", "_file_hashes.json">>

\* fileHashStatePath, lines 451-461: <state dir>/<id or "default">_file_hashes.json.
fileHashStatePath(projectID) ==
    <<IF projectID = "" THEN "default" ELSE projectID, "_file_hashes.json">>

StatePaths == {fileHashStatePath(q) : q \in ProjectIDs}
StateFiles == {MissingState, CorruptState, StateOf(EmptyMap), StateOf(1 :> HashContent("v1"))}

\* os.Remove of a state file; fsOk = FALSE is a failure other than "not exist".
Remove(dir, path, fsOk) ==
    IF dir[path] = MissingState THEN [err |-> TRUE, notExist |-> TRUE, dir |-> dir]
    ELSE IF fsOk THEN [err |-> FALSE, notExist |-> FALSE,
                       dir |-> [dir EXCEPT ![path] = MissingState]]
    ELSE [err |-> TRUE, notExist |-> FALSE, dir |-> dir]

Called(op, id, err, loaded) ==
    [op |-> op, id |-> id, err |-> err, loaded |-> loaded,
     before |-> stateDir, store |-> <<coll, points>>,
     after |-> IF lastCall.op = "none" THEN "none" ELSE lastCall.op,
     afterId |-> IF lastCall.op = "none" THEN "none" ELSE lastCall.id]

\* ClearProjectState, lines 465-477, for any project id.
ClearStateOf(projectID, fsOk) ==
    /\ LET r == Remove(stateDir, fileHashStatePath(projectID), fsOk)
       IN /\ stateDir' = r.dir
          /\ lastCall' = Called("clear", projectID, r.err /\ ~r.notExist, EmptyMap)
    /\ UNCHANGED <<idxVars, notDir>>

\* saveFileHashes, lines 439-449, for any project id.
SaveStateOf(projectID, m) ==
    /\ stateDir' = [stateDir EXCEPT ![fileHashStatePath(projectID)] = m]
    /\ lastCall' = Called("save", projectID, FALSE, EmptyMap)
    /\ UNCHANGED <<idxVars, notDir>>

\* loadFileHashes, lines 414-435, for any project id.
LoadStateOf(projectID) ==
    /\ LET r == loadFileHashes(stateDir[fileHashStatePath(projectID)])
       IN lastCall' = Called("load", projectID, r.err, r.hashes)
    /\ UNCHANGED <<stateDir, idxVars, notDir>>

InitDir ==
    /\ IndexerOff /\ DupOff /\ FindOff /\ WalkOff /\ SrvOff /\ NameOff /\ RetryOff /\ SimOff /\ KeyOff /\ EnsOff
    /\ stateDir \in [StatePaths -> {MissingState, StateOf(EmptyMap)}]
    /\ lastCall = [op |-> "none"]

NextDir ==
    \/ \E q \in ProjectIDs, fsOk \in BOOLEAN : ClearStateOf(q, fsOk)
    \/ \E q \in ProjectIDs, m \in StateFiles \ {MissingState} : SaveStateOf(q, m)
    \/ \E q \in ProjectIDs : LoadStateOf(q)

SpecDir == InitDir /\ [][NextDir]_vars


\* ------------------------------------------------ GetAllSourceFiles
\* The project tree the walk runs on: directory -> entries as ReadDir returns
\* them (sorted by name).  A path is the sequence of names below the root.
ReadDir ==
    [p \in {<<>>, <<"lib">>, <<"node_modules">>, <<"sub">>, <<"sub", "deep">>} |->
        CASE p = <<>> -> <<"a.go", "lib", "node_modules", "sub">>
          [] p = <<"lib">> -> <<"d.go", "notes.txt">>
          [] p = <<"node_modules">> -> <<"x.js">>
          [] p = <<"sub">> -> <<"b.go", "deep">>
          [] p = <<"sub", "deep">> -> <<"c.py">>]
Dirs == DOMAIN ReadDir
IsDir(p) == p \in Dirs
Name(p) == IF p = <<>> THEN "." ELSE p[Len(p)]

\* excludedDirs, lines 12-21, as far as the tree has such names.
excludedDirs == {".git", "node_modules", "vendor", "dist", "build"}
\* Names whose extension is a key of languageExts.
HasLanguageExt(name) == name \in {"a.go", "b.go", "c.py", "d.go", "x.js"}

\* isIgnoredPath for bare-name patterns: the pattern is a segment of relPath.
isIgnoredPath(relPath, patterns) ==
    \E i \in 1..Len(relPath) : relPath[i] \in patterns

\* filepath.WalkDir calls the callback for the root.
WalkEnter ==
    /\ wpc = "start"
    /\ wpc' = "walk"
    /\ pending' = << <<>> >>
    /\ UNCHANGED <<broken, ignorePatterns, found, walkErr, notWalk>>

\* One entry: the callback with a nil error, then for a directory that was
\* not skipped ReadDir, and on its failure the callback with that error, whose
\* first statement is `if err != nil { return err }`: WalkDir stops.
WalkVisit ==
    /\ wpc = "walk" /\ pending # <<>>
    /\ LET p == Head(pending)
           rest == Tail(pending)
           children == [i \in 1..Len(ReadDir[p]) |-> Append(p, ReadDir[p][i])]
       IN IF IsDir(p)
          THEN IF (p # <<>> /\ Name(p) \in excludedDirs) \/ isIgnoredPath(p, ignorePatterns)
               THEN pending' = rest /\ UNCHANGED <<wpc, found, walkErr>>
               ELSE IF p \in broken
                    THEN /\ wpc' = "returned" /\ walkErr' = TRUE
                         /\ UNCHANGED <<pending, found>>
                    ELSE pending' = children \o rest /\ UNCHANGED <<wpc, found, walkErr>>
          ELSE /\ pending' = rest
               /\ found' = IF ~isIgnoredPath(p, ignorePatterns) /\ HasLanguageExt(Name(p))
                           THEN Append(found, p) ELSE found
               /\ UNCHANGED <<wpc, walkErr>>
    /\ UNCHANGED <<broken, ignorePatterns, notWalk>>

\* WalkDir returns nil: `return files, err`.
WalkReturn ==
    /\ wpc = "walk" /\ pending = <<>>
    /\ wpc' = "returned"
    /\ UNCHANGED <<broken, ignorePatterns, pending, found, walkErr, notWalk>>

\* IndexProject, lines 78-81: `if err != nil { return err }`.
IndexAfterWalk ==
    /\ wpc = "returned"
    /\ wpc' = IF walkErr THEN "aborted" ELSE "proceeds"
    /\ UNCHANGED <<broken, ignorePatterns, pending, found, walkErr, notWalk>>

InitWalk ==
    /\ IndexerOff /\ DupOff /\ FindOff /\ DirOff /\ SrvOff /\ NameOff /\ RetryOff /\ SimOff /\ KeyOff /\ EnsOff
    /\ broken \in SUBSET Dirs
    /\ ignorePatterns \in {{}, {"lib"}}
    /\ wpc = "start" /\ pending = <<>> /\ found = <<>> /\ walkErr = FALSE

NextWalk == WalkEnter \/ WalkVisit \/ WalkReturn \/ IndexAfterWalk

SpecWalk == InitWalk /\ [][NextWalk]_vars


\* ------------------------------------------------------- mcp.Server
\* The operations of the fsnotify events the tree can produce.
EventOps == {"create", "write", "chmod"}
\* `ev.Op&(Create|Write|Remove|Rename) != 0`.
ChangeOps == {"create", "write"}

\* What watchLoop can do at once when it is at its select.
LoopReady == loopPc = "select" /\ (events # <<>> \/ timeLeft = 0 \/ watchDone = "closed")

\* The file system reports a change below a watched directory.
FsEvent(op) ==
    /\ watcher = "open" /\ cpc # "panicked"
    /\ fsLeft > 0
    /\ fsLeft' = fsLeft - 1
    /\ events' = Append(events, op)
    /\ UNCHANGED <<watcher, watchDone, watchWg, grpcConn, loopPc, reindexRequested,
                   timeLeft, running, runs, quiet, cpc, closeCalls, notSrv>>

\* A second passes while watchLoop waits at its select or a run is going on.
Tick ==
    /\ loopPc \in {"select", "indexing"} /\ ~LoopReady /\ cpc # "panicked"
    /\ timeLeft' = IF timeLeft = Stopped THEN Stopped ELSE timeLeft - 1
    /\ quiet' = IF quiet < debounce THEN quiet + 1 ELSE quiet
    /\ UNCHANGED <<watcher, watchDone, watchWg, grpcConn, events, loopPc, reindexRequested,
                   running, runs, fsLeft, cpc, closeCalls, notSrv>>

\* Variant: a change event leaves a running timer as it is.
ResetOnEvent_KeepRunning(t) == IF t = Stopped THEN debounce ELSE t

\* Lines 639-646: timer.Stop(), drain, timer.Reset(debounce).
ResetOnEvent(t) == debounce

\* watchLoop, `case ev, ok := <-s.watcher.Events`: a create, write, remove or
\* rename event requests a re-index and restarts the debounce timer.
LoopEvent ==
    /\ loopPc = "select" /\ events # <<>> /\ cpc # "panicked"
    /\ events' = Tail(events)
    /\ IF Head(events) \in ChangeOps
       THEN /\ reindexRequested' = TRUE
            /\ timeLeft' = ResetOnEvent(timeLeft)
            /\ quiet' = 0
       ELSE UNCHANGED <<reindexRequested, timeLeft, quiet>>
    /\ UNCHANGED <<watcher, watchDone, watchWg, grpcConn, loopPc, running, runs, fsLeft,
                   cpc, closeCalls, notSrv>>

\* Variant: the run is started in a goroutine of its own.
LoopAfterTimer_Spawn(requested) == "select"

\* Lines 650-656: runIncrementalIndex is called in watchLoop itself, which is
\* at no select until IndexProject has returned.
LoopAfterTimer(requested) == IF requested THEN "indexing" ELSE "select"

\* watchLoop, `case <-timer.C`: when a re-index was requested the flag is
\* cleared and runIncrementalIndex starts; else the timer is reset.
LoopTimer ==
    /\ loopPc = "select" /\ timeLeft = 0 /\ cpc # "panicked"
    /\ reindexRequested' = FALSE
    /\ loopPc' = LoopAfterTimer(reindexRequested)
    /\ timeLeft' = IF loopPc' = "select" THEN debounce ELSE Stopped
    /\ running' = IF reindexRequested THEN running + 1 ELSE running
    /\ runs' = IF reindexRequested THEN runs + 1 ELSE runs
    /\ UNCHANGED <<watcher, watchDone, watchWg, grpcConn, events, quiet, fsLeft, cpc,
                   closeCalls, notSrv>>

\* runIncrementalIndex, lines 661-672: IndexProject returns, whatever its result;
\* back in watchLoop the timer is reset (line 656).
RunDone ==
    /\ running > 0 /\ cpc # "panicked"
    /\ running' = running - 1
    /\ IF loopPc = "indexing"
       THEN loopPc' = "select" /\ timeLeft' = debounce
       ELSE UNCHANGED <<loopPc, timeLeft>>
    /\ UNCHANGED <<watcher, watchDone, watchWg, grpcConn, events, reindexRequested, runs,
                   quiet, fsLeft, cpc, closeCalls, notSrv>>

\* watchLoop, `case <-s.watchDone`: return, and the deferred watchWg.Done().
LoopDone ==
    /\ loopPc = "select" /\ watchDone = "closed" /\ cpc # "panicked"
    /\ loopPc' = "exited"
    /\ timeLeft' = Stopped
    /\ watchWg' = watchWg - 1
    /\ UNCHANGED <<watcher, watchDone, grpcConn, events, reindexRequested, running, runs,
                   quiet, fsLeft, cpc, closeCalls, notSrv>>

\* Close, lines 63-67: a call starts; `if s.watcher != nil`.
CloseEnter ==
    /\ cpc = "idle" /\ closeCalls < MaxCloses
    /\ cpc' = IF watcher # "nil" THEN "watchDone" ELSE "qdrant"
    /\ UNCHANGED <<watcher, watchDone, watchWg, grpcConn, events, loopPc,
                   reindexRequested, timeLeft, running, runs, quiet, fsLeft, closeCalls,
                   notSrv>>

\* Close, lines 68-70: `if s.watchDone != nil { close(s.watchDone) }`.  The
\* close of a channel that is already closed panics.
CloseWatchDone ==
    /\ cpc = "watchDone"
    /\ IF watchDone = "closed"
       THEN cpc' = "panicked" /\ UNCHANGED watchDone
       ELSE /\ cpc' = "wait"
            /\ watchDone' = IF watchDone = "nil" THEN "nil" ELSE "closed"
    /\ UNCHANGED <<watcher, watchWg, grpcConn, events, loopPc, reindexRequested,
                   timeLeft, running, runs, quiet, fsLeft, closeCalls, notSrv>>

\* Close, lines 71-72: s.watchWg.Wait() returns, then s.watcher.Close().
CloseWatcher ==
    /\ cpc = "wait" /\ watchWg = 0
    /\ cpc' = "qdrant"
    /\ watcher' = "closed"
    /\ events' = <<>>
    /\ UNCHANGED <<watchDone, watchWg, grpcConn, loopPc, reindexRequested, timeLeft,
                   running, runs, quiet, fsLeft, closeCalls, notSrv>>

\* Close, lines 74-76: s.qdrantClient.Close(), whose error is dropped; return.
CloseQdrant ==
    /\ cpc = "qdrant"
    /\ grpcConn' = "closed"
    /\ cpc' = "idle"
    /\ closeCalls' = closeCalls + 1
    /\ UNCHANGED <<watcher, watchDone, watchWg, events, loopPc, reindexRequested,
                   timeLeft, running, runs, quiet, fsLeft, notSrv>>

\* The server NewServer returns: startWatcher either failed before it set the
\* fields (lines 569-586) or started watchLoop (lines 588-592), whose timer is
\* stopped at first (lines 610-613).
InitSrv ==
    /\ IndexerOff /\ DupOff /\ FindOff /\ DirOff /\ WalkOff /\ NameOff /\ RetryOff /\ SimOff /\ KeyOff /\ EnsOff
    /\ \/ watcher = "nil" /\ watchDone = "nil" /\ watchWg = 0 /\ loopPc = "none"
       \/ watcher = "open" /\ watchDone = "open" /\ watchWg = 1 /\ loopPc = "select"
    /\ grpcConn = "open" /\ events = <<>>
    /\ reindexRequested = FALSE /\ timeLeft = Stopped
    /\ running = 0 /\ runs = 0 /\ quiet = debounce /\ fsLeft = MaxEvents
    /\ cpc = "idle" /\ closeCalls = 0

NextSrv ==
    \/ \E op \in EventOps : FsEvent(op)
    \/ Tick
    \/ LoopEvent
    \/ LoopTimer
    \/ RunDone
    \/ LoopDone
    \/ CloseEnter
    \/ CloseWatchDone
    \/ CloseWatcher
    \/ CloseQdrant

SpecSrv == InitSrv /\ [][NextSrv]_vars

\* The scheduler lets time pass and lets watchLoop and a run it started take
\* their next step.
SpecSrvLive ==
    /\ SpecSrv
    /\ WF_vars(Tick) /\ WF_vars(LoopEvent) /\ WF_vars(LoopTimer) /\ WF_vars(RunDone)

\* ---------------------------------------------------- CollectionName
\* A string is the sequence of its characters.
defaultCollectionName == <<"c", "o", "d", "e", "b", "a", "s", "e", "_", "d", "e", "f", "a", "u", "l", "t">>
collectionPrefix == <<"c", "o", "d", "e", "b", "a", "s", "e", "_">>

\* The characters strings.TrimSpace removes, as far as the ids use them.
Space == {" ", "\t", "\n"}

\* strings.TrimSpace: the string without its leading and trailing white space.
RECURSIVE TrimLeft(_)
TrimLeft(s) == IF s # <<>> /\ Head(s) \in Space THEN TrimLeft(Tail(s)) ELSE s
RECURSIVE TrimRight(_)
TrimRight(s) ==
    IF s # <<>> /\ s[Len(s)] \in Space THEN TrimRight(SubSeq(s, 1, Len(s) - 1)) ELSE s
TrimSpace(s) == TrimRight(TrimLeft(s))

\* CollectionName, lines 31-37.
CollectionName(projectID) ==
    LET id == TrimSpace(projectID)
    IN  IF id = <<>> THEN defaultCollectionName ELSE collectionPrefix \o id

\* The project ids the calls are made with: a core with white space around it.
IdCores == {<<>>, <<"a", "b", "c">>, <<"a", "b">>, <<"a", " ", "c">>, <<"d", "e", "f", "a", "u", "l", "t">>}
Padding == {<<>>, <<" ">>, <<"\t", "\n">>}
ProjectIdStrings == {l \o c \o r : l \in Padding, c \in IdCores, r \in Padding}

NameFirst ==
    /\ npc = 0
    /\ outA' = CollectionName(idA)
    /\ npc' = 1
    /\ UNCHANGED <<idA, idB, outB, notName>>

NameSecond ==
    /\ npc = 1
    /\ outB' = CollectionName(idB)
    /\ npc' = 2
    /\ UNCHANGED <<idA, idB, outA, notName>>

InitName ==
    /\ IndexerOff /\ DupOff /\ FindOff /\ DirOff /\ WalkOff /\ SrvOff /\ RetryOff /\ SimOff /\ KeyOff /\ EnsOff
    /\ idA \in ProjectIdStrings /\ idB \in ProjectIdStrings
    /\ npc = 0 /\ outA = <<>> /\ outB = <<>>

NextName == NameFirst \/ NameSecond

SpecName == InitName /\ [][NextName]_vars


\* ------------------------------------- Client.Upsert / DeleteByFilter
\* What one RPC to the store can return: success, a transient failure, or the
\* context's cancellation or deadline.
RpcOutcomes == {"ok", "unavailable", "canceled", "deadline"}
ContextDone == {"canceled", "deadline"}

\* Client.Upsert, lines 426-447: one attempt of the inner loop on the batch of
\* the outer loop, and what follows from its result.
UpsertAttempt(o) ==
    /\ rop = "upsert" /\ rret = "none"
    /\ batch < batches /\ attempt < maxRetries
    /\ rpcs' = Append(rpcs, o)
    /\ IF o = "ok"
       THEN /\ batch' = batch + 1 /\ attempt' = 0 /\ tries' = 0
            /\ UNCHANGED rret
       ELSE IF o \in ContextDone \/ attempt + 1 = maxRetries
       THEN /\ rret' = "err" /\ tries' = tries + 1
            /\ UNCHANGED <<batch, attempt>>
       ELSE /\ attempt' = attempt + 1 /\ tries' = tries + 1
            /\ UNCHANGED <<batch, rret>>
    /\ UNCHANGED <<rop, batches, notRetry>>

\* Client.Upsert, lines 415 and 454: the outer loop is over; return nil.
UpsertReturn ==
    /\ rop = "upsert" /\ rret = "none" /\ batch = batches
    /\ rret' = "nil"
    /\ UNCHANGED <<rop, batches, batch, attempt, rpcs, tries, notRetry>>

\* Client.DeleteByFilter, lines 499-510, as deleteFilePoints calls it: one
\* Delete RPC whose error is returned.
DeleteRpc(o) ==
    /\ rop = "delete" /\ rret = "none"
    /\ rpcs' = Append(rpcs, o)
    /\ tries' = tries + 1
    /\ rret' = IF o = "ok" THEN "nil" ELSE "err"
    /\ UNCHANGED <<rop, batches, batch, attempt, notRetry>>

InitRetry ==
    /\ IndexerOff /\ DupOff /\ FindOff /\ DirOff /\ WalkOff /\ SrvOff /\ NameOff /\ SimOff /\ KeyOff /\ EnsOff
    /\ \/ rop = "upsert" /\ batches \in 0..MaxBatches
       \/ rop = "delete" /\ batches = 0
    /\ batch = 0 /\ attempt = 0 /\ rret = "none" /\ rpcs = <<>> /\ tries = 0

NextRetry ==
    \/ \E o \in RpcOutcomes : UpsertAttempt(o)
    \/ UpsertReturn
    \/ \E o \in RpcOutcomes : DeleteRpc(o)

SpecRetry == InitRetry /\ [][NextRetry]_vars


\* ---------------------------------------------------------- CosineSim
\* The vectors a single call is made with: one or two components.
Components == {0, 1, 2}
SimVectors == [{1} -> Components] \cup [{1, 2} -> Components]

\* FindDuplicates, line 34: score := utils.CosineSim(vectors[i], vectors[j]).
SimCall ==
    /\ spc = "call"
    /\ simScore' = CosineSim(vecA, vecB)
    /\ spc' = "done"
    /\ UNCHANGED <<vecA, vecB, notSim>>

InitSim ==
    /\ IndexerOff /\ DupOff /\ FindOff /\ DirOff /\ WalkOff /\ SrvOff /\ NameOff /\ RetryOff /\ KeyOff /\ EnsOff
    /\ vecA \in SimVectors /\ vecB \in SimVectors
    /\ spc = "call" /\ simScore = [num |-> 0, den |-> 1]

NextSim == SimCall

SpecSim == InitSim /\ [][NextSim]_vars


\* ------------------------------------------------- hash-state keys
\* A path is the sequence of its characters; a name has one letter.
\* strings.Split(s, "/") as a sequence of segments.
RECURSIVE SplitSlash(_)
SplitSlash(s) ==
    IF \A i \in 1..Len(s) : s[i] # "/" THEN <<s>>
    ELSE LET k == CHOOSE i \in 1..Len(s) : s[i] = "/" /\ \A j \in 1..(i - 1) : s[j] # "/"
         IN <<SubSeq(s, 1, k - 1)>> \o SplitSlash(SubSeq(s, k + 1, Len(s)))

IsAbs(p) == p # <<>> /\ Head(p) = "/"

\* filepath.Clean on segments: "." and empty segments go, ".." takes the
\* segment before it, at the root it is dropped, and in front of a relative
\* path it stays.
RECURSIVE CleanSegs(_, _, _)
CleanSegs(segs, done, rooted) ==
    IF segs = <<>> THEN done
    ELSE LET g == Head(segs)
             rest == Tail(segs)
         IN  IF g = <<>> \/ g = <<".">> THEN CleanSegs(rest, done, rooted)
             ELSE IF g = <<".", ".">>
                  THEN IF done # <<>> /\ done[Len(done)] # <<".", ".">>
                       THEN CleanSegs(rest, SubSeq(done, 1, Len(done) - 1), rooted)
                       ELSE IF rooted THEN CleanSegs(rest, done, rooted)
                       ELSE CleanSegs(rest, Append(done, g), rooted)
                  ELSE CleanSegs(rest, Append(done, g), rooted)

RECURSIVE JoinSlash(_)
JoinSlash(segs) ==
    IF segs = <<>> THEN <<>>
    ELSE IF Len(segs) = 1 THEN segs[1]
    ELSE segs[1] \o <<"/">> \o JoinSlash(Tail(segs))

\* filepath.Clean.
PathClean(p) ==
    LET body == JoinSlash(CleanSegs(SplitSlash(p), <<>>, IsAbs(p)))
    IN  IF IsAbs(p) THEN <<"/">> \o body
        ELSE IF body = <<>> THEN <<".">> ELSE body

\* filepath.Join of two elements: empty elements are ignored, the rest is
\* joined with a separator and cleaned.
Join(a, b) ==
    IF a = <<>> /\ b = <<>> THEN <<>>
    ELSE IF a = <<>> THEN PathClean(b)
    ELSE IF b = <<>> THEN PathClean(a)
    ELSE PathClean(a \o <<"/">> \o b)

\* Variant: a relative path is cleaned but not made absolute.
normalizeFilePath_NoAbs(path, wd) ==
    IF TrimSpace(path) = <<>> THEN <<>> ELSE PathClean(TrimSpace(path))

\* normalizeFilePath, lines 364-382, on a system whose separator is the slash;
\* filepath.Abs joins a relative path to the working directory wd.
normalizeFilePath(path, wd) ==
    LET p == TrimSpace(path)
    IN  IF p = <<>> THEN <<>>
        ELSE PathClean(IF IsAbs(p) THEN p ELSE Join(wd, p))

\* canonicalizeHashKeys, lines 384-410: the canonical key of one key of the map.
CanonicalKey(k, root, wd) ==
    LET key == TrimSpace(k)
        p == IF IsAbs(key) THEN key ELSE Join(root, key)
    IN  normalizeFilePath(p, wd)

\* canonicalizeHashKeys, lines 384-410: the maps it can return.  Keys that get
\* the same canonical key overwrite each other in the order of the map range.
canonicalizeHashKeys(m, normalizedRoot, wd) ==
    IF DOMAIN m = {} \/ TrimSpace(normalizedRoot) = <<>> THEN {m}
    ELSE LET root == PathClean(TrimSpace(normalizedRoot))
             kept == {k \in DOMAIN m : TrimSpace(k) # <<>>}
             keys == {CanonicalKey(k, root, wd) : k \in kept}
         IN  {out \in [keys -> {m[k] : k \in kept}] :
                \A c \in keys : \E k \in kept : CanonicalKey(k, root, wd) = c /\ out[c] = m[k]}

\* The normalized project root and the two source files the walk yields.
ProjectRoot == <<"/", "r">>
WalkedFiles == {<<"/", "r", "/", "a">>, <<"/", "r", "/", "d", "/", "b">>}
\* The spellings a state file can hold for the two files, and keys without a path.
Spellings ==
    [f \in WalkedFiles |->
        IF f = <<"/", "r", "/", "a">>
        THEN {<<"a">>, <<".", "/", "a">>, <<"d", "/", ".", ".", "/", "a">>, <<" ", "a", " ">>, <<"/", "r", "/", "a">>, <<"/", "r", "/", ".", "/", "a">>, <<"/", "r", "/", "d", "/", ".", ".", "/", "a">>, <<"/", "r", "/", "/", "a">>}
        ELSE {<<"d", "/", "b">>, <<".", "/", "d", "/", "b">>, <<"d", "/", ".", "/", "b">>, <<"/", "r", "/", "d", "/", "b">>, <<"/", "r", "/", "a", "/", ".", ".", "/", "d", "/", "b">>, <<"d", "/", "/", "b">>}]
BlankKeys == {<<>>, <<" ", " ">>}
FileHash(f) == HashContent(IF f = <<"/", "r", "/", "a">> THEN "v1" ELSE "v2")

\* IndexProject, lines 90-94: loadFileHashes has returned hashes;
\* canonicalizeHashKeys.
CanonicalizeLoaded ==
    /\ kpc = "load"
    /\ prevHashes' \in canonicalizeHashKeys(hashes, ProjectRoot, cwd)
    /\ kpc' = "diff"
    /\ UNCHANGED <<cwd, hashes, spurious, notKey>>

\* IndexProject, lines 96-117: the files are unchanged on disk; the keys of
\* currentHashes are normalizeFilePath of the walked paths.
DiffKeys ==
    /\ kpc = "diff"
    /\ LET current == {normalizeFilePath(f, cwd) : f \in WalkedFiles}
           hashOf(k) == FileHash(CHOOSE f \in WalkedFiles : normalizeFilePath(f, cwd) = k)
       IN spurious' = << {k \in current : k \notin DOMAIN prevHashes \/ prevHashes[k] # hashOf(k)},
                         {k \in DOMAIN prevHashes : k \notin current} >>
    /\ kpc' = "done"
    /\ UNCHANGED <<cwd, hashes, prevHashes, notKey>>

\* A state file that holds each of the two files under one spelling, with or
\* without keys that are blank.
InitKey ==
    /\ IndexerOff /\ DupOff /\ FindOff /\ DirOff /\ WalkOff /\ SrvOff /\ NameOff /\ RetryOff /\ SimOff /\ EnsOff
    /\ cwd \in {<<"/", "r">>, <<"/", "w">>}
    /\ \E sp \in [WalkedFiles -> UNION {Spellings[f] : f \in WalkedFiles}], blank \in SUBSET BlankKeys :
         /\ \A f \in WalkedFiles : sp[f] \in Spellings[f]
         /\ hashes = [k \in {sp[f] : f \in WalkedFiles} \cup blank |->
                        IF k \in blank THEN HashContent("bad")
                        ELSE FileHash(CHOOSE f \in WalkedFiles : sp[f] = k)]
    /\ kpc = "load" /\ prevHashes = EmptyMap /\ spurious = <<{}, {}>>

NextKey == CanonicalizeLoaded \/ DiffKeys

SpecKey == InitKey /\ [][NextKey]_vars


\* ------------------------------------------- re-indexing an indexed project
\* The content every file had when the project was last indexed.
IndexedContent == "v2"

\* A project of two files whose last index run succeeded with every file at
\* IndexedContent: the state file holds the hashes of that content and the store
\* the points of its units.  Since then each file was left alone, edited, or
\* broken so that it no longer parses.
InitReindex ==
    /\ disk \in [Files -> {"v1", "v2", "bad"}]
    /\ embedDim = 1
    /\ stateFile = StateOf([f \in Files |-> HashContent(IndexedContent)])
    /\ coll = 1
    /\ points = [u \in UnitIds(Files) |->
                   IF \E f \in Files : u = PrivateUnit(f) THEN u[2] ELSE 0]
    /\ phase = "idle"
    /\ currentHashes = EmptyMap
    /\ delLeft = {}
    /\ queue = <<>>
    /\ pf = [f \in Files |-> "-"]
    /\ units = NoUnits
    /\ run = NoRun
    /\ delCalls = Zero /\ procCalls = Zero /\ upsCalls = Zero
    /\ ensCalls = 0
    /\ res = NoRes
    /\ since = Dirty
    /\ failedSeen = {}
    /\ DupOff /\ RestOff

SpecReindex == InitReindex /\ [][NextOrder]_vars

\* Client.DeleteCollection, analyzer.go lines 400-406: one Delete RPC.
DeleteCollection(netOk) ==
    IF netOk THEN [err |-> FALSE, coll |-> 0, points |-> [u \in DOMAIN points |-> 0]]
    ELSE [err |-> TRUE, coll |-> coll, points |-> points]

\* The clear-index command, cmd/root.go lines 123-153: it deletes the project's
\* collection and touches nothing else; the hash state file stays as it is.
clearIndexCmd ==
    /\ phase = "idle" /\ run.outcome = "none" /\ coll # 0
    /\ LET d == DeleteCollection(TRUE)
       IN coll' = d.coll /\ points' = d.points
    /\ UNCHANGED <<disk, embedDim, stateFile, phase, currentHashes, delLeft, queue, pf, units,
                   run, delCalls, procCalls, upsCalls, ensCalls, res, since, failedSeen>>
    /\ UNCHANGED notIdx

NextClear ==
    \/ clearIndexCmd
    \/ NextOrder

SpecClear == InitReindex /\ [][NextClear]_vars


\* ------------------------------------- concurrent Client.EnsureCollection
\* The workers started at indexer.go lines 141-147 share one store client and
\* call EnsureCollection (line 268) with no lock; each RPC is one step.
Workers == 1..RacingWorkers

\* A vector size other than the one the embedding model returns now.
StaleSize == embedDim + 1

\* analyzer.go lines 358-382: the Get RPC and the decision taken on its answer.
\* An error (the collection does not exist) falls through to Create.
AfterGet(size) ==
    IF size = 0 THEN "create"
    ELSE IF size # embedDim THEN "delete"
    ELSE "upsert"

EnsureGet(w) ==
    /\ epc[w] = "get"
    /\ epc' = [epc EXCEPT ![w] = AfterGet(ecoll)]
    /\ UNCHANGED <<ecoll, epts>>
    /\ UNCHANGED notEns

\* Lines 368-375: the Delete RPC.  The collection and every point in it are
\* gone; deleting a collection that is already gone answers with or without an
\* error, and an error is returned to processFile.
EnsureDelete(w) ==
    /\ epc[w] = "delete"
    /\ \E missingIsError \in BOOLEAN :
         epc' = [epc EXCEPT ![w] = IF ecoll = 0 /\ missingIsError THEN "failed" ELSE "create"]
    /\ ecoll' = 0
    /\ epts' = {}
    /\ UNCHANGED notEns

\* Lines 384-396: the Create RPC; the store refuses to create a collection that
\* exists, and the error is returned to processFile.
EnsureCreate(w) ==
    /\ epc[w] = "create"
    /\ IF ecoll = 0
       THEN ecoll' = embedDim /\ epc' = [epc EXCEPT ![w] = "upsert"]
       ELSE ecoll' = ecoll /\ epc' = [epc EXCEPT ![w] = "failed"]
    /\ UNCHANGED epts
    /\ UNCHANGED notEns

\* indexer.go lines 334-338: the worker's Upsert into the collection.
WorkerUpsert(w) ==
    /\ epc[w] = "upsert"
    /\ IF ecoll = embedDim
       THEN epts' = epts \cup {w} /\ epc' = [epc EXCEPT ![w] = "done"]
       ELSE epts' = epts /\ epc' = [epc EXCEPT ![w] = "failed"]
    /\ UNCHANGED ecoll
    /\ UNCHANGED notEns

\* The collection does not exist yet, or exists with the current or with another
\* vector size; every worker has embedded its file and is about to call
\* EnsureCollection.
InitEnsure ==
    /\ IndexerOff /\ DupOff /\ FindOff /\ DirOff /\ WalkOff /\ SrvOff /\ NameOff /\ RetryOff /\ SimOff /\ KeyOff
    /\ ecoll \in {0, embedDim, StaleSize}
    /\ epts = {}
    /\ epc = [w \in Workers |-> "get"]

NextEnsure ==
    \/ \E w \in Workers : EnsureGet(w)
    \/ \E w \in Workers : EnsureDelete(w)
    \/ \E w \in Workers : EnsureCreate(w)
    \/ \E w \in Workers : WorkerUpsert(w)

SpecEnsure == InitEnsure /\ [][NextEnsure]_vars

\* ============================================================ claims
NoStoreCalls ==
    /\ ensCalls = 0
    /\ \A f \in AllFiles : delCalls[f] = 0 /\ procCalls[f] = 0 /\ upsCalls[f] = 0
ReturnedNil == phase = "idle" /\ run.outcome \in {"empty", "noop", "ok"}
RemovedKeys == {k \in DOMAIN run.prev : disk[k] = "absent"}
Hashable == {f \in AllFiles : disk[f] \in Contents}

\* C1 (idempotent re-index): a run started when no file was created, edited or
\* removed since the previous run returned nil has returned at once: it classified
\* no file as changed or deleted, issued no Upsert, DeleteByFilter or
\* EnsureCollection call and did not write the hash state, whatever processFile
\* returned for the files of the previous run.  (With no source file at all the
\* run returns even earlier, at line 86.)
C1_IdempotentReindex ==
    run.pre = "clean" =>
        /\ phase = "idle"
        /\ run.outcome = (IF GetAllSourceFiles = {} THEN "empty" ELSE "noop")
        /\ run.changed = {} /\ run.deleted = {}
        /\ NoStoreCalls
        /\ run.saved = "no"
        /\ stateFile = [kind |-> run.stateKind, map |-> run.prev]

C1_Witness ==
    /\ run.pre = "clean" /\ run.outcome = "noop"
    /\ failedSeen # {}
    /\ \E f \in AllFiles : disk[f] = "unreadable"

\* C2 (change detection): a run started when exactly one indexed file was edited
\* (content to another content) since the previous run returned nil classifies
\* that file alone as changed and none as deleted, issues a DeleteByFilter, a
\* processFile or an Upsert for no other path, and when it has saved the state
\* every other file has the entry it had before.
C2_ChangeDetection ==
    run.pre = "mod" =>
        /\ run.changed = {run.mod} /\ run.deleted = {}
        /\ \A g \in AllFiles \ {run.mod} :
             delCalls[g] = 0 /\ procCalls[g] = 0 /\ upsCalls[g] = 0
        /\ (phase = "idle" /\ run.saved = "ok") =>
             /\ DOMAIN stateFile.map \ {run.mod} = DOMAIN run.prev \ {run.mod}
             /\ \A g \in DOMAIN run.prev \ {run.mod} : stateFile.map[g] = run.prev[g]
             /\ stateFile.map[run.mod] # run.prev[run.mod]

C2_Witness ==
    /\ run.pre = "mod" /\ phase = "idle" /\ run.saved = "ok"
    /\ upsCalls[run.mod] = 1 /\ delCalls[run.mod] = 1
    /\ DOMAIN run.prev \ {run.mod} # {}

\* C3 (deletion propagation), as claimed: when a run has returned nil, every key
\* of the persisted state whose file was removed from disk got exactly one
\* DeleteByFilter call and is no longer a key of the persisted state, also when
\* no source file is left.
C3_DeletionPropagation ==
    ReturnedNil =>
        \A f \in RemovedKeys : delCalls[f] = 1 /\ f \notin DOMAIN stateFile.map

\* C4 (worker-pool completeness): in a run with N changed files, N below, equal
\* to or above the pool size, at most NumWorkers processFile calls are open, no
\* file is processed twice, a changed file is either still in the channel or has
\* had its processFile call, and when the run has ended every changed file has had
\* exactly one call that returned, whether it or another call returned an error.
C4_WorkerPoolCompleteness ==
    /\ Cardinality(InFlight) <= NumWorkers
    /\ \A f \in AllFiles : procCalls[f] <= 1
    /\ \A f \in AllFiles \ run.changed : procCalls[f] = 0
    /\ phase = "running" =>
         \A f \in run.changed :
            (procCalls[f] = 0) <=> (\E i \in 1..Len(queue) : queue[i] = f)
    /\ run.outcome \in {"ok", "saveerr"} =>
         /\ run.changed = AllFiles
         /\ \A f \in run.changed : procCalls[f] = 1 /\ res[f] # "none"

C4_Witness ==
    /\ phase = "idle" /\ run.outcome = "ok"
    /\ Cardinality(run.changed) > NumWorkers
    /\ \A f \in run.changed : procCalls[f] = 1
    /\ \E f, g \in run.changed : res[f] = "err" /\ res[g] = "ok"

\* C5 (no orphaned points), as claimed: at the step where processFile returns nil
\* for a file, the points whose payload file_path is that file are exactly the
\* points built from the units extracted from the file.
C5_NoOrphanedPoints ==
    [][\A f \in AllFiles :
         (res[f] = "none" /\ res'[f] = "ok") =>
             PointsOf(points', f) = (IF pf[f] = "upsert" THEN units[f] ELSE {})]_vars

\* C6 (per-file errors are contained): a run that went past the diff ends only
\* in SaveHashes, with every changed file processed exactly once whatever the
\* other files' processFile or the deletions of removed files returned, and it
\* returns nil exactly when the state was written.
C6_ErrorsContained ==
    /\ run.outcome \in {"ok", "saveerr"} =>
         /\ phase = "idle" /\ run.saved # "no"
         /\ \A f \in run.changed : procCalls[f] = 1 /\ res[f] # "none"
         /\ \A f \in run.deleted : delCalls[f] = 1
         /\ run.outcome = "ok" <=> run.saved = "ok"
    /\ (phase = "idle" /\ run.outcome = "running") => FALSE

C6_Witness ==
    /\ run.outcome = "ok"
    /\ \E f, g \in run.changed : res[f] = "err" /\ res[g] = "ok"

\* C7 (failed files are recorded as seen): the state a run has written holds the
\* fingerprint of every file it could hash, also of the files whose processFile
\* failed; and a file whose failure was persisted is not classified as changed
\* by a later run as long as the file is not edited.
C7_FailedRecordedAsSeen ==
    /\ (phase = "idle" /\ run.saved = "ok") =>
         /\ DOMAIN stateFile.map = Hashable
         /\ \A f \in Hashable : stateFile.map[f] = HashContent(disk[f])
    /\ phase = "running" =>
         /\ failedSeen \cap run.changed = {}
         /\ \A f \in failedSeen : procCalls[f] = 0
    /\ \A f \in failedSeen : f \in DOMAIN stateFile.map

C7_Witness ==
    /\ failedSeen # {}
    /\ phase = "idle" /\ run.outcome = "ok" /\ run.pre = "mod"
    /\ \A f \in failedSeen : procCalls[f] = 0

\* C8 (hash-state errors abort the run): with source files present, a state file
\* that cannot be read or parsed makes the run return an error before any store
\* call and without a write; a failed save makes the run return an error; a
\* missing state file is read as the empty map, so every hashable file is changed.
C8_StateErrorsAbort ==
    /\ (run.stateKind = "corrupt" /\ run.outcome # "empty") =>
         /\ run.outcome = "loaderr" /\ phase = "idle"
         /\ NoStoreCalls /\ run.saved = "no" /\ stateFile = CorruptState
    /\ run.outcome = "loaderr" => run.stateKind = "corrupt"
    /\ run.saved = "failed" => run.outcome = "saveerr"
    /\ (run.stateKind = "missing" /\ run.outcome # "empty") =>
         /\ run.outcome # "loaderr"
         /\ run.changed = Hashable /\ run.deleted = {}

C8_Witness ==
    /\ run.outcome = "loaderr" /\ run.stateKind = "corrupt"
    /\ Hashable # {}

\* Connectivity of the fingerprints, stated from the set of confirmed pairs alone.
EdgeSet == {Edge(pairs[i]) : i \in DOMAIN pairs}
Nodes == UNION EdgeSet
RECURSIVE Reach(_)
Reach(S) ==
    LET n == S \cup {y \in Nodes : \E x \in S : {x, y} \in EdgeSet}
    IN IF n = S THEN S ELSE Reach(n)
GroupHashes(root) ==
    {groups[root].Chunks[i].CodeHash : i \in DOMAIN groups[root].Chunks}
RECURSIVE SumScores(_)
SumScores(I) ==
    IF I = {} THEN 0
    ELSE LET i == CHOOSE j \in I : TRUE IN pairs[i].Score + SumScores(I \ {i})

\* C9 (clustering by connected components): when buildDuplicateGroups has
\* returned, every fingerprint that occurs in a confirmed pair is the CodeHash of
\* exactly one chunk of exactly one group, the fingerprints of a group are exactly
\* those connected to one of them by a chain of pairs, and so the groups are the
\* connected components of the set of pairs, whatever the order of the list.
C9_ConnectedComponents ==
    dpc = "done" =>
        /\ \A h \in Nodes :
             /\ Cardinality({r \in DOMAIN groups : h \in GroupHashes(r)}) = 1
             /\ \A r \in DOMAIN groups :
                  Cardinality({i \in DOMAIN groups[r].Chunks :
                                   groups[r].Chunks[i].CodeHash = h}) <= 1
        /\ \A r \in DOMAIN groups :
             /\ GroupHashes(r) # {}
             /\ \A h \in GroupHashes(r) :
                  GroupHashes(r) = Reach({h}) /\ chunkMap[h] = Chunk(h)
             /\ \A i \in DOMAIN groups[r].Chunks :
                  groups[r].Chunks[i] = Chunk(groups[r].Chunks[i].CodeHash)
        /\ {GroupHashes(r) : r \in DOMAIN groups} = {Reach({h}) : h \in Nodes}

C9_Witness ==
    /\ dpc = "done"
    /\ {1, 2} \in EdgeSet /\ {2, 3} \in EdgeSet /\ {1, 3} \notin EdgeSet
    /\ \E r \in DOMAIN groups :
         GroupHashes(r) = {1, 2, 3} /\ Len(groups[r].Chunks) = 3

\* C10 (group score): when buildDuplicateGroups has returned, the AvgScore of
\* every group is the sum of the scores of the confirmed pairs whose two chunks
\* are in the group, each counted once, divided by the number of those pairs.
C10_GroupScore ==
    dpc = "done" =>
        \A r \in DOMAIN groups :
            LET in == {i \in DOMAIN pairs : Edge(pairs[i]) \subseteq GroupHashes(r)}
                avg == groups[r].AvgScore
            IN /\ in # {} /\ avg.den > 0
               /\ avg.num * Cardinality(in) = SumScores(in) * avg.den

C10_Witness ==
    /\ dpc = "done" /\ Len(pairs) = 2
    /\ {pairs[1].Score, pairs[2].Score} = {95, 93}
    /\ \A r \in DOMAIN groups :
         groups[r].AvgScore.num = 94 * groups[r].AvgScore.den

\* What FindDuplicates has produced so far: the chunks it kept, the chunks of its
\* candidates and of the pairs handed on, and the chunks of the groups.
RECURSIVE SeqRange(_)
SeqRange(q) == IF q = <<>> THEN {} ELSE {Head(q)} \cup SeqRange(Tail(q))
EmittedPairs == SeqRange(candidates) \cup SeqRange(pairs)
GroupChunks == UNION {SeqRange(groups[r].Chunks) : r \in DOMAIN groups}
EmittedChunks ==
    SeqRange(chunks) \cup {p.A : p \in EmittedPairs} \cup {p.B : p \in EmittedPairs}
        \cup GroupChunks
StoredAt(i) == store[i].Payload
SameVectors == \A i, j \in DOMAIN store : store[i].Vector = store[j].Vector

\* C11 (triviality filter): no PairCandidate FindDuplicates appends, and no pair
\* buildDuplicateGroups is called with, joins two chunks of the same file that
\* share a start line or an end line, or has a chunk of fewer than 3 lines,
\* whatever the vectors and the threshold; every score summed into a group comes
\* from such a pair.
C11_TrivialityFilter ==
    /\ \A p \in EmittedPairs :
         /\ ~(p.A.FilePath = p.B.FilePath /\ p.A.StartLine = p.B.StartLine)
         /\ ~(p.A.FilePath = p.B.FilePath /\ p.A.EndLine = p.B.EndLine)
         /\ p.A.EndLine - p.A.StartLine + 1 >= 3
         /\ p.B.EndLine - p.B.StartLine + 1 >= 3
    /\ \A r \in DOMAIN groupScores : Len(groupScores[r]) <= Len(pairs)

C11_Witness ==
    /\ fpc = "done" /\ SameVectors
    /\ {StoredAt(1), StoredAt(2), StoredAt(5)} \subseteq SeqRange(chunks)
    /\ StoredAt(1).FilePath = StoredAt(2).FilePath
    /\ StoredAt(1).StartLine = StoredAt(2).StartLine
    /\ \A p \in EmittedPairs : {p.A.CodeHash, p.B.CodeHash} # {1, 2}
    /\ \E p \in EmittedPairs : {p.A.CodeHash, p.B.CodeHash} = {1, 4}

\* C12 (line-count gating): a chunk whose line count is below a positive MinLines
\* or above a positive MaxLines of the filter is in no chunk list, candidate,
\* pair or group of FindDuplicates; with both bounds 0 and no language list every
\* stored chunk is kept.
C12_LineCountGating ==
    /\ \A c \in EmittedChunks :
         LET lines == c.EndLine - c.StartLine + 1
         IN /\ plan.Filter.MinLines > 0 => lines >= plan.Filter.MinLines
            /\ plan.Filter.MaxLines > 0 => lines <= plan.Filter.MaxLines
    /\ ( /\ fpc \in {"pairs", "build", "done"}
         /\ plan.Filter.MinLines = 0 /\ plan.Filter.MaxLines = 0
         /\ plan.Filter.Languages = {} )
       => chunks = [i \in DOMAIN store |-> StoredAt(i)]

C12_Witness ==
    /\ fpc = "done" /\ SameVectors
    /\ plan.Filter.MinLines = 5 /\ plan.Filter.MaxLines = 0
    /\ StoredAt(3).EndLine - StoredAt(3).StartLine + 1 = 4
    /\ StoredAt(3) \notin EmittedChunks /\ StoredAt(5) \notin EmittedChunks
    /\ StoredAt(4) \in GroupChunks

\* C13 (language and node-type gating), as claimed: every chunk FindDuplicates
\* keeps, pairs or groups has a language of the filter's Languages list and a
\* node type of the filter's NodeTypes list, whenever the list is not empty.
C13_LanguageNodeTypeGating ==
    \A c \in EmittedChunks :
        /\ plan.Filter.Languages # {} => c.Language \in plan.Filter.Languages
        /\ plan.Filter.NodeTypes # {} => c.NodeType \in plan.Filter.NodeTypes

\* C14 (ClearProjectState): a ClearProjectState call changes nothing in the vector
\* store and no state file of a project with another id ("" being the id
\* "default"); it returns nil when the file is already absent, and after a call
\* that returned nil the project's file is absent and loads as the empty map; a
\* call that returned an error removed nothing.
C14_ClearProjectState ==
    /\ lastCall.op = "clear" =>
         LET own == fileHashStatePath(lastCall.id)
             name(q) == IF q = "" THEN "default" ELSE q
         IN /\ lastCall.store = <<coll, points>>
            /\ \A q \in ProjectIDs :
                 name(q) # name(lastCall.id) =>
                     stateDir[fileHashStatePath(q)] = lastCall.before[fileHashStatePath(q)]
            /\ lastCall.before[own] = MissingState => ~lastCall.err
            /\ ~lastCall.err =>
                 /\ stateDir[own] = MissingState
                 /\ loadFileHashes(stateDir[own]) = [err |-> FALSE, hashes |-> EmptyMap]
            /\ lastCall.err => stateDir = lastCall.before
    /\ (lastCall.op = "load" /\ lastCall.before[fileHashStatePath(lastCall.id)] = MissingState)
         => ~lastCall.err /\ lastCall.loaded = EmptyMap

C14_Witness ==
    /\ lastCall.op = "clear" /\ lastCall.id = "p1" /\ ~lastCall.err
    /\ lastCall.after = "clear" /\ lastCall.afterId = "p1"
    /\ lastCall.before[fileHashStatePath("p1")] = MissingState
    /\ stateDir[fileHashStatePath("p2")] = StateOf(1 :> HashContent("v1"))
    /\ stateDir[fileHashStatePath("")] = StateOf(EmptyMap)

\* C15 (walker error policy): the enumeration of the source files fails, and the
\* index run is given up, only when the root directory itself cannot be read; an
\* unreadable directory below the root is skipped and the run proceeds with the
\* files of the rest of the tree.
C15_WalkerErrorPolicy ==
    /\ wpc = "aborted" => <<>> \in broken
    /\ wpc \in {"aborted", "proceeds"} /\ <<>> \notin broken =>
         /\ wpc = "proceeds"
         /\ \A d \in Dirs : \A i \in 1..Len(ReadDir[d]) :
              LET p == Append(d, ReadDir[d][i])
                  walked == \A n \in 0..Len(d) :
                               LET q == SubSeq(d, 1, n)
                               IN  /\ q \notin broken
                                   /\ (q # <<>> => Name(q) \notin excludedDirs)
                                   /\ ~isIgnoredPath(q, ignorePatterns)
              IN  (walked /\ ~IsDir(p) /\ HasLanguageExt(Name(p))
                          /\ ~isIgnoredPath(p, ignorePatterns))
                     => \E k \in 1..Len(found) : found[k] = p

\* C16 (Server.Close): Close calls made one after another on the same server,
\* also on one whose file watcher was started, never panic, and a call after
\* the first leaves the server as the first call left it.
C16_CloseIsRepeatable ==
    /\ cpc # "panicked"
    /\ closeCalls >= 1 => grpcConn = "closed" /\ watcher \in {"nil", "closed"}

\* C17 (CollectionName): an id that is empty or only white space is mapped to
\* the default collection, every other id to the prefix followed by the trimmed
\* id; two ids get the same collection only if they are equal after trimming,
\* and an id that is not empty after trimming never gets the default collection.
C17_CollectionName ==
    LET blank(s) == \A i \in 1..Len(s) : s[i] \in Space
        core(s) == CHOOSE c \in IdCores : \E l \in Padding, r \in Padding : s = l \o c \o r
    IN  npc = 2 =>
          /\ blank(idA) => outA = defaultCollectionName
          /\ ~blank(idA) => outA = collectionPrefix \o core(idA)
          /\ outA = outB => core(idA) = core(idB)
          /\ ~blank(idA) => outA # defaultCollectionName

\* C18 (persist after join): the hash state is written only when no processFile
\* call is open and the channel is drained; while a run is in its processing
\* phase nothing reads into or writes the state file or the currentHashes map,
\* in particular no step of a worker does; and once the state write has begun
\* the run makes no further store call.
C18_PersistAfterJoin ==
    [][ /\ (phase = "running" /\ (stateFile' # stateFile \/ run'.saved # run.saved))
            => (InFlight = {} /\ queue = <<>> /\ phase' = "idle")
        /\ (phase = "running" /\ phase' = "running")
            => (stateFile' = stateFile /\ currentHashes' = currentHashes)
        /\ (pf' # pf) => (stateFile' = stateFile /\ currentHashes' = currentHashes)
        /\ (phase = "idle")
            => (points' = points /\ coll' = coll /\ pf' = pf) ]_vars

C18_Witness ==
    /\ phase = "idle" /\ run.saved = "ok" /\ run.changed = Files
    /\ \A f \in Files : procCalls[f] = 1 /\ upsCalls[f] = 1 /\ res[f] = "ok"
    /\ stateFile = StateOf([f \in Files |-> hashFile(f).hash])

\* The store after the files of a channel were processed one after the other,
\* each by a delete of its points and an upsert of its units, all successful.
RECURSIVE OneByOne(_, _)
OneByOne(pts, q) ==
    IF q = <<>> THEN pts
    ELSE LET f == Head(q)
             funcs == ExtractFunctions(f, disk[f]).funcs
         IN OneByOne([u \in DOMAIN pts |->
                         IF u \in funcs THEN f ELSE IF pts[u] = f THEN 0 ELSE pts[u]],
                     Tail(q))

\* C19 (order independence): when the first run on a project has ended and every
\* processFile call returned nil, the point ids and the file_path of their
\* payloads are what processing the files one after the other gives, whatever
\* the interleaving of the workers was, also when two files hold a unit of the
\* same text.
C19_OrderIndependent ==
    (phase = "idle" /\ run.outcome = "ok" /\ \A f \in run.changed : res[f] = "ok")
        => points = OneByOne([u \in DOMAIN points |-> 0], SortedSeq(run.changed))

\* C20 (bounded store retries): no batch of an upsert and no delete-by-filter is
\* attempted more than maxRetries times; a call returns an error only after the
\* context was cancelled or timed out, or after maxRetries failed attempts; a
\* call whose RPCs failed transiently and then succeeded returns nil; and no
\* RPC follows one that ended with the context cancelled or timed out.
C20_BoundedRetries ==
    /\ tries <= maxRetries
    /\ rret = "err" => (rpcs[Len(rpcs)] \in ContextDone \/ tries = maxRetries)
    /\ rret = "nil" => (rpcs = <<>> \/ rpcs[Len(rpcs)] = "ok")
    /\ \A i \in 1..Len(rpcs) : rpcs[i] \in ContextDone => (i = Len(rpcs) /\ rret = "err")

\* C21 (single flight from the watcher): at most one IndexProject run started
\* by watchLoop is in progress at any time, and watchLoop is inside it; once
\* Close has got past its wait, and so whenever the store client is closed or
\* a Close call has returned, watchLoop has ended and no run of it is going on.
C21_SingleFlight ==
    /\ running <= 1
    /\ running = 1 => loopPc = "indexing"
    /\ (cpc = "qdrant" \/ grpcConn = "closed" \/ closeCalls >= 1)
         => (running = 0 /\ loopPc \in {"none", "exited"})

C21_Witness ==
    /\ running = 1 /\ runs = 1 /\ loopPc = "indexing"
    /\ cpc = "wait" /\ watchDone = "closed"
    /\ events # <<>> /\ Head(events) \in ChangeOps

\* A change that watchLoop has still to answer with a run: a change event it has
\* not received yet, or a re-index it has requested.
ChangePending ==
    reindexRequested \/ \E i \in 1..Len(events) : events[i] \in ChangeOps

RECURSIVE SumOver(_, _, _)
SumOver(a, b, i) == IF i = 0 THEN 0 ELSE a[i] * b[i] + SumOver(a, b, i - 1)
NormSq(a) == SumOver(a, a, Len(a))

\* C23 (similarity score): for vectors of equal length and non-zero norm the
\* score is dot(a,b) / (||a|| * ||b||), that is, it has the sign of the inner
\* product and its square times ||a||^2 ||b||^2 is the square of the inner
\* product; the score of a vector with itself is 1; vectors of different length
\* or of zero norm score 0.
C23_SimilarityScore ==
    spc = "done" =>
        IF Len(vecA) # Len(vecB) \/ NormSq(vecA) = 0 \/ NormSq(vecB) = 0
        THEN simScore.num = 0
        ELSE LET dot == SumOver(vecA, vecB, Len(vecA))
             IN /\ simScore.den > 0
                /\ simScore.num * dot >= 0 /\ (simScore.num = 0 <=> dot = 0)
                /\ simScore.num * simScore.num * NormSq(vecA) * NormSq(vecB)
                     = dot * dot * simScore.den * simScore.den
                /\ vecA = vecB => simScore.num = simScore.den

\* C24 (canonical hash-state keys): normalizeFilePath is idempotent and gives a
\* relative path the key of the absolute path it stands for, whatever "." and
\* ".." segments either has; canonicalizeHashKeys drops the blank keys, gives
\* every other key the canonical key of its file below the project root and
\* keeps its value; so a state written with relative or unclean keys makes the
\* diff of an unchanged tree report no changed and no deleted file.
C24_CanonicalKeys ==
    /\ \A k \in DOMAIN hashes :
         LET n == normalizeFilePath(k, cwd)
             t == TrimSpace(k)
         IN  /\ normalizeFilePath(n, cwd) = n
             /\ (t # <<>> /\ t[1] # "/") =>
                   /\ n = normalizeFilePath(cwd \o <<"/">> \o t, cwd)
                   /\ cwd = ProjectRoot => (n \in WalkedFiles /\ k \in Spellings[n])
             /\ (t # <<>> /\ t[1] = "/") => (n \in WalkedFiles /\ k \in Spellings[n])
    /\ kpc \in {"diff", "done"} =>
         /\ DOMAIN prevHashes = WalkedFiles
         /\ \A f \in WalkedFiles : prevHashes[f] = FileHash(f)
    /\ kpc = "done" => spurious = <<{}, {}>>

C24_Witness ==
    /\ kpc = "done" /\ cwd # ProjectRoot
    /\ DOMAIN hashes = {<<"d", "/", ".", ".", "/", "a">>, <<"/", "r", "/", "a", "/", ".", ".", "/", "d", "/", "b">>, <<>>, <<" ", " ">>}
    /\ DOMAIN prevHashes = WalkedFiles

\* C25: cross-file frame.  A step of processFile on a file f (its delete-by-filter
\* or its upsert), or the deletion of the vectors of a removed file f, leaves
\* every point whose payload file_path is another file exactly as it was; a unit
\* of another file with the same text stays stored under that file's path.
C25_CrossFileFrame ==
    [][\A f \in AllFiles :
         (phase = "running" /\ (delCalls'[f] # delCalls[f] \/ upsCalls'[f] # upsCalls[f])) =>
             \A u \in DOMAIN points :
                 points[u] \notin {0, f} => points'[u] = points[u]]_vars

\* The run of IndexProject is over and the hash state was written (or, on the
\* no-op fast path, left as it was).
RunOver == phase = "idle" /\ run.outcome \in {"ok", "noop"}

\* C26: failure keeps the old index entries.  When processFile fails on a changed
\* file (parse, embedding, EnsureCollection or upsert error), the points stored
\* for the file's previous version are still in the store at the end of the run.
C26_FailureKeepsOldPoints ==
    RunOver =>
        \A f \in AllFiles :
            res[f] = "err" => PrivateUnit(f) \in PointsOf(points, f)

\* C28: store and hash state stay consistent across collection removal.  After a
\* run in which no file failed, every file recorded in the persisted hash state
\* has the points of its current content in the store, also when the collection
\* was deleted by clear-index before the run.
C28_ReindexAfterClear ==
    (RunOver /\ \A f \in AllFiles : res[f] # "err") =>
        \A f \in DOMAIN stateFile.map :
            disk[f] \in {"v1", "v2"} => PrivateUnit(f) \in PointsOf(points, f)

\* C27: race-free lazy collection setup.  When the workers of one run call
\* EnsureCollection concurrently, then once all of them have returned the
\* collection exists with the observed dimension, no worker failed because of
\* what another worker did to the collection, and the points of every worker
\* are in the collection.
C27_RaceFreeEnsure ==
    (\A w \in Workers : epc[w] \in {"done", "failed"}) =>
        /\ ecoll = embedDim
        /\ \A w \in Workers : epc[w] = "done" /\ w \in epts

\* fetchAllVectors has returned its two lists.
Fetched == fpc \in {"pairs", "build", "done"}

\* C29: chunk/vector alignment.  After fetchAllVectors has scrolled all pages the
\* retained chunks and the retained vectors have the same length and the i-th
\* chunk and the i-th vector come from the same stored point, also when a stored
\* point that passes the filter has no vector.
C29_ChunkVectorAlignment ==
    Fetched =>
        /\ Len(chunks) = Len(vectors)
        /\ \A i \in DOMAIN chunks :
             \E k \in DOMAIN store :
                 store[k].Payload = chunks[i] /\ store[k].Vector = vectors[i]

\* C30: every DuplicateGroup returned by buildDuplicateGroups for a non-empty
\* list of confirmed pairs contains at least two chunks, also when the two
\* payloads of a confirmed pair carry the same content fingerprint.
C30_GroupsHaveTwoChunks ==
    (dpc = "done" /\ pairs # <<>>) =>
        \A root \in DOMAIN groups : Len(groups[root].Chunks) >= 2

====
